---- MODULE Spec2Model ----
(***************************************************************************)
(* Jing: the bytecode compiler (src/src/compiler.rs), the stack VM and the *)
(* REPL (src/src/vm.rs) and the dynamic values and the environment         *)
(* (src/src/value.rs).                                                     *)
(*                                                                         *)
(* A session is a sequence of REPL::eval calls on one persistent VM.  The  *)
(* first eval runs on the VM as VM::new leaves it, so it is also the run   *)
(* of a whole program in batch mode.  Compilation is a pure function of    *)
(* the AST and is an operator; VM::run is a loop and each of its           *)
(* iterations (one instruction) is one step of the state machine.          *)
(***************************************************************************)
EXTENDS Integers, Sequences, FiniteSets, TLC

VARIABLES
  chunk,       \* VM::chunk
  ip,          \* VM::ip
  stack,       \* VM::stack
  globals,     \* VM::globals, an Environment
  call_stack,  \* VM::call_stack
  status,      \* "idle" before the first eval; "running" inside VM::run; how run ended
  error,       \* the error the last eval returned
  out,         \* the values the current eval has printed
  steps,       \* instructions the current eval has executed
  evals,       \* eval calls so far
  shadow,      \* per call frame: what the caller looked like at the CALL
  regions,     \* the if statements and blocks being executed, innermost last
  exits,       \* the if statements and blocks that the last step completed
  last,        \* what the last step was
  declared,    \* per function name: the declaration that last bound it
  invoked,     \* the host callables the current eval has invoked, with their arguments
  source,      \* the tokens of the source of the last eval, when it was given as text
  text,        \* Lexer::input of the last tokenize call, a sequence of characters
  lexed,       \* what that tokenize call returned
  parsed,      \* the tokens of the last Parser::parse call and what it returned
  environment, \* an Environment used on its own: Environment::scopes
  env_call,    \* the last call on it and what it returned
  servers,     \* HTTP_SERVERS: per port the handle the registry holds, 0 for none
  handles,     \* every ServerHandle made so far, with the thread spawned for it
  http_caller, \* where the thread of the VM is inside start_http_server
  http_reply,  \* what the last call of an HTTP builtin returned
  started      \* the handles whose start_http_server returned "HTTP server started"

\* the VM and the REPL around it
vm_vars == <<chunk, ip, stack, globals, call_stack, status, error, out, steps, evals,
             shadow, regions, exits, last, declared, invoked, source>>

\* the lexer and the parser called on their own
front_vars == <<text, lexed, parsed>>

\* an Environment called on its own
env_vars == <<environment, env_call>>

\* the HTTP builtins and the listener threads
http_vars == <<servers, handles, http_caller, http_reply, started>>

\* what an eval of the REPL leaves alone
aside == <<front_vars, env_vars, http_vars>>

vars == <<vm_vars, aside>>

RECURSIVE Gcd(_, _)
RECURSIVE Digits(_)
RECURSIVE compile_statement(_, _)
RECURSIVE compile_expression(_, _)
RECURSIVE compile_statements(_, _, _)
RECURSIVE compile_arguments(_, _, _)
RECURSIVE bind_parameters(_, _, _, _, _)
RECURSIVE Unwind(_, _)
RECURSIVE Leave(_, _, _, _, _, _)
RECURSIVE Enter(_, _, _, _, _)
RECURSIVE StrLess(_, _)
RECURSIVE Factorial(_)
RECURSIVE tokenize(_, _, _)
RECURSIVE skip_whitespace(_, _)
RECURSIVE string_loop(_, _, _, _)
RECURSIVE identifier_loop(_, _)
RECURSIVE Lexer_tokenize_loop(_, _, _, _)
RECURSIVE assignment(_, _)
RECURSIVE arguments(_, _, _)
RECURSIVE call_loop(_, _)
RECURSIVE term_loop(_, _)
RECURSIVE parse_loop(_, _, _)
RECURSIVE ExpressionLexemes(_)
RECURSIVE term(_, _)
RECURSIVE Precedes(_)
RECURSIVE Flatten(_)

(***************************************************************************)
(* Bounds of the exploration.                                              *)
(***************************************************************************)
\* instructions one eval may execute before the exploration stops following it
MaxSteps == 90
\* eval calls in one session
MaxEvals == 2
\* the largest N of the counting loop `while i < N`
MaxCount == 2
\* the largest argument of the recursive factorial
MaxArg == 5

\* characters of a text given to the lexer on its own
MaxText == 5
\* frames of an Environment used on its own
MaxDepth == 3
\* operands of an expression given to the parser on its own
MaxOperands == 3
\* calls of start_http_server that make a handle
MaxStarts == 2

(***************************************************************************)
(* Values (value.rs).  Number is an f64 in the source; the model keeps the *)
(* exact rational n/d in lowest terms with d > 0.  A string is the         *)
(* sequence of its character codes.                                        *)
(***************************************************************************)
Abs(i) == IF i < 0 THEN -i ELSE i

Gcd(a, b) == IF b = 0 THEN a ELSE Gcd(b, a % b)

Nil == [kind |-> "Nil", n |-> 0, d |-> 1, s |-> <<>>, name |-> "", arity |-> 0]

Bool(b) ==
  [kind |-> "Bool", n |-> IF b THEN 1 ELSE 0, d |-> 1, s |-> <<>>, name |-> "", arity |-> 0]

Ratio(n, d) ==
  LET g == Gcd(Abs(n), Abs(d))
      sgn == IF d < 0 THEN -1 ELSE 1
  IN  [kind |-> "Number", n |-> sgn * (n \div g), d |-> Abs(d) \div g,
       s |-> <<>>, name |-> "", arity |-> 0]

Number(n) == Ratio(n, 1)

String(s) == [kind |-> "String", n |-> 0, d |-> 1, s |-> s, name |-> "", arity |-> 0]

Function(name, arity, chunk_start) ==
  [kind |-> "Function", n |-> chunk_start, d |-> 1, s |-> <<>>, name |-> name, arity |-> arity]

\* a host function; the callable is the registry entry of that name
BuiltinFunction(name) ==
  [kind |-> "BuiltinFunction", n |-> 0, d |-> 1, s |-> <<>>, name |-> name, arity |-> 0]

\* the absence of a binding in a HashMap<String, Value>
Unbound == [kind |-> "Unbound", n |-> 0, d |-> 1, s |-> <<>>, name |-> "", arity |-> 0]

\* a JingResult: Ok(value) or Err(kind, message)
Ok(v) == [ok |-> TRUE, value |-> v, kind |-> "", msg |-> ""]
Err(kind, msg) == [ok |-> FALSE, value |-> Nil, kind |-> kind, msg |-> msg]

is_truthy(v) ==
  CASE v.kind = "Nil" -> FALSE
    [] v.kind = "Bool" -> v.n = 1
    [] OTHER -> TRUE

is_falsy(v) == ~is_truthy(v)

\* decimal digits of a natural number, as character codes
Digits(i) == IF i < 10 THEN <<48 + i>> ELSE Digits(i \div 10) \o <<48 + (i % 10)>>

\* the character codes of the identifiers the programs of the model use
NameChars(name) ==
  CASE name = "f" -> <<102>>
    [] name = "g" -> <<103>>
    [] name = "x" -> <<120>>
    [] name = "y" -> <<121>>
    [] name = "a" -> <<97>>
    [] name = "i" -> <<105>>
    [] name = "n" -> <<110>>
    [] name = "abs" -> <<97, 98, 115>>
    [] name = "max" -> <<109, 97, 120>>
    [] OTHER -> <<63>>

\* fmt::Display for Value.  A number without fractional part prints as an
\* integer; the model has no decimal expansion for the other numbers and
\* prints them as numerator, '/', denominator.
Display(v) ==
  CASE v.kind = "Nil" -> <<110, 105, 108>>
    [] v.kind = "Bool" -> IF v.n = 1 THEN <<116, 114, 117, 101>> ELSE <<102, 97, 108, 115, 101>>
    [] v.kind = "Number" ->
         (IF v.n < 0 THEN <<45>> ELSE <<>>) \o Digits(Abs(v.n))
           \o (IF v.d = 1 THEN <<>> ELSE <<47>> \o Digits(v.d))
    [] v.kind = "String" -> v.s
    [] OTHER -> <<60, 102, 110, 32>> \o NameChars(v.name) \o <<40>> \o Digits(v.arity)
                  \o <<32, 97, 114, 103, 115, 41, 62>>

\* an add without the arm for a string on the right of a non-string
add_LeftStringOnly(a, b) ==
  CASE a.kind = "Number" /\ b.kind = "Number" -> Ok(Ratio(a.n * b.d + b.n * a.d, a.d * b.d))
    [] a.kind = "String" /\ b.kind = "String" -> Ok(String(a.s \o b.s))
    [] a.kind = "String" /\ b.kind # "String" -> Ok(String(a.s \o Display(b)))
    [] OTHER -> Err("TypeError", "Cannot add")

add(a, b) ==
  CASE a.kind = "Number" /\ b.kind = "Number" -> Ok(Ratio(a.n * b.d + b.n * a.d, a.d * b.d))
    [] a.kind = "String" /\ b.kind = "String" -> Ok(String(a.s \o b.s))
    [] a.kind = "String" /\ b.kind # "String" -> Ok(String(a.s \o Display(b)))
    [] a.kind # "String" /\ b.kind = "String" -> Ok(String(Display(a) \o b.s))
    [] OTHER -> Err("TypeError", "Cannot add")

subtract(a, b) ==
  IF a.kind = "Number" /\ b.kind = "Number"
  THEN Ok(Ratio(a.n * b.d - b.n * a.d, a.d * b.d))
  ELSE Err("TypeError", "Cannot subtract")

multiply(a, b) ==
  IF a.kind = "Number" /\ b.kind = "Number"
  THEN Ok(Ratio(a.n * b.n, a.d * b.d))
  ELSE Err("TypeError", "Cannot multiply")

\* a divide that reports a zero divisor with the error of the fallback arm
divide_ZeroAsTypeError(a, b) ==
  IF a.kind = "Number" /\ b.kind = "Number" /\ b.n # 0
  THEN Ok(Ratio(a.n * b.d, a.d * b.n))
  ELSE Err("TypeError", "Cannot divide")

divide(a, b) ==
  IF a.kind = "Number" /\ b.kind = "Number"
  THEN IF b.n = 0
       THEN Err("RuntimeError", "Division by zero")
       ELSE Ok(Ratio(a.n * b.d, a.d * b.n))
  ELSE Err("TypeError", "Cannot divide")

\* the quotient of two integers rounded toward zero
Trunc(p, q) ==
  IF (p >= 0) = (q > 0) THEN Abs(p) \div Abs(q) ELSE -(Abs(p) \div Abs(q))

\* f64 % f64: the remainder has the sign of the dividend
modulo(a, b) ==
  IF a.kind = "Number" /\ b.kind = "Number"
  THEN IF b.n = 0
       THEN Err("RuntimeError", "Division by zero")
       ELSE LET q == Trunc(a.n * b.d, a.d * b.n)
            IN  Ok(Ratio(a.n * b.d - q * b.n * a.d, a.d * b.d))
  ELSE Err("TypeError", "Cannot modulo")

negate(a) ==
  IF a.kind = "Number" THEN Ok(Ratio(-a.n, a.d)) ELSE Err("TypeError", "Cannot negate")

not(a) == Bool(is_falsy(a))

\* numbers compare equal when they differ by less than f64::EPSILON; two
\* different rationals of the model differ by far more
equals(a, b) ==
  CASE a.kind = "Nil" /\ b.kind = "Nil" -> TRUE
    [] a.kind = "Bool" /\ b.kind = "Bool" -> a.n = b.n
    [] a.kind = "Number" /\ b.kind = "Number" -> a.n = b.n /\ a.d = b.d
    [] a.kind = "String" /\ b.kind = "String" -> a.s = b.s
    [] OTHER -> FALSE

\* the lexicographic order of two strings
StrLess(s, t) ==
  IF t = <<>> THEN FALSE
  ELSE IF s = <<>> THEN TRUE
  ELSE IF Head(s) # Head(t) THEN Head(s) < Head(t)
  ELSE StrLess(Tail(s), Tail(t))

less_than(a, b) ==
  CASE a.kind = "Number" /\ b.kind = "Number" -> Ok(Bool(a.n * b.d < b.n * a.d))
    [] a.kind = "String" /\ b.kind = "String" -> Ok(Bool(StrLess(a.s, b.s)))
    [] OTHER -> Err("TypeError", "Cannot compare")

greater_than(a, b) ==
  CASE a.kind = "Number" /\ b.kind = "Number" -> Ok(Bool(a.n * b.d > b.n * a.d))
    [] a.kind = "String" /\ b.kind = "String" -> Ok(Bool(StrLess(b.s, a.s)))
    [] OTHER -> Err("TypeError", "Cannot compare")


(***************************************************************************)
(* Environment (value.rs): a stack of scopes, each a map from name to      *)
(* value.  A map is a function on Names whose absent keys hold Unbound.    *)
(***************************************************************************)
Names == {"x", "y", "a", "i", "n", "f", "g", "abs", "max"}

EmptyScope == [nm \in Names |-> Unbound]

Environment_new == <<EmptyScope>>

push_scope(env) == Append(env, EmptyScope)

\* pop_scope without the test that keeps the global frame
pop_scope_Unguarded(env) == SubSeq(env, 1, Len(env) - 1)

pop_scope(env) == IF Len(env) > 1 THEN SubSeq(env, 1, Len(env) - 1) ELSE env

define(env, name, value) ==
  IF Len(env) > 0 THEN [env EXCEPT ![Len(env)][name] = value] ELSE env

\* the search of get and set from the outermost frame inwards
BindingScope_OutermostFirst(env, name) ==
  LET hits == {i \in 1..Len(env) : env[i][name].kind # "Unbound"}
  IN  IF hits = {} THEN 0 ELSE CHOOSE i \in hits : \A j \in hits : j >= i

\* the innermost scope that binds name, 0 when none does
BindingScope(env, name) ==
  LET hits == {i \in 1..Len(env) : env[i][name].kind # "Unbound"}
  IN  IF hits = {} THEN 0 ELSE CHOOSE i \in hits : \A j \in hits : j <= i

get(env, name) ==
  LET i == BindingScope(env, name)
  IN  IF i = 0 THEN Err("RuntimeError", "Undefined variable") ELSE Ok(env[i][name])

\* set that binds an unbound name in the innermost frame
set_Defining(env, name, value) ==
  LET i == BindingScope(env, name)
  IN  IF i = 0 THEN [ok |-> TRUE, env |-> define(env, name, value)]
      ELSE [ok |-> TRUE, env |-> [env EXCEPT ![i][name] = value]]

set(env, name, value) ==
  LET i == BindingScope(env, name)
  IN  IF i = 0 THEN [ok |-> FALSE, env |-> env] ELSE [ok |-> TRUE, env |-> [env EXCEPT ![i][name] = value]]

(***************************************************************************)
(* Instructions and chunks (compiler.rs).  Addresses and constant indexes  *)
(* count from 0 as in the source: the instruction at address i is          *)
(* code[i + 1].                                                            *)
(***************************************************************************)
Op(op, arg, name) == [op |-> op, arg |-> arg, name |-> name]

\* the absence of an entry in Chunk::functions
NoFunction == [name |-> "", arity |-> 0, start_address |-> 0, locals |-> <<>>]

FunctionInfo(name, arity, start_address, locals) ==
  [name |-> name, arity |-> arity, start_address |-> start_address, locals |-> locals]

\* Compiler::new.  The fields code, constants and functions are the chunk.
\* marks keeps the addresses that the compile_* functions compute in their
\* local variables (then_jump, end_address, function_start, ...); no
\* instruction depends on it.
Compiler_new ==
  [code |-> <<>>, constants |-> <<>>, functions |-> [nm \in Names |-> NoFunction],
   locals |-> <<>>, scope_depth |-> 0, error |-> "", marks |-> {}]

Chunk_new == [code |-> <<>>, constants |-> <<>>, functions |-> [nm \in Names |-> NoFunction],
              marks |-> {}]

Mark(kind, name, start, mid, exit, flag) ==
  [kind |-> kind, name |-> name, start |-> start, mid |-> mid, exit |-> exit, flag |-> flag,
   params |-> <<>>]

note(c, m) == [c EXCEPT !.marks = @ \cup {m}]

emit(c, op) == [c EXCEPT !.code = Append(@, op)]

\* c1 is c after the code of an expression and the one instruction that
\* consumes its value: the addresses of the expression
expression_of(c, c1) ==
  note(c1, Mark("expr", "", Len(c.code), Len(c.code), Len(c1.code) - 1, FALSE))

emit_constant(c, value) ==
  LET index == Len(c.constants)
  IN  emit([c EXCEPT !.constants = Append(@, value)], Op("Constant", index, ""))

current_address(c) == Len(c.code)

\* a patch_jump that leaves the placeholder operand in place
patch_jump_Unpatched(c, address, target) == c

patch_jump(c, address, target) == [c EXCEPT !.code[address + 1].arg = target]

compile_error(c, msg) == IF c.error = "" THEN [c EXCEPT !.error = msg] ELSE c

begin_scope(c) == [c EXCEPT !.scope_depth = @ + 1]

end_scope(c) == [c EXCEPT !.scope_depth = @ - 1]

Contains(seq, e) == \E i \in 1..Len(seq) : seq[i] = e

(***************************************************************************)
(* The AST (parser.rs).  Every node is a record of the same shape; kids    *)
(* holds the sub-expressions and sub-statements in source order.           *)
(***************************************************************************)
Node(type, name, op, val, kids, params) ==
  [type |-> type, name |-> name, op |-> op, val |-> val, kids |-> kids, params |-> params]

Literal(v) == Node("Literal", "", "", v, <<>>, <<>>)
Variable(name) == Node("Variable", name, "", Nil, <<>>, <<>>)
Binary(op, l, r) == Node("Binary", "", op, Nil, <<l, r>>, <<>>)
Unary(op, e) == Node("Unary", "", op, Nil, <<e>>, <<>>)
Logical(op, l, r) == Node("Logical", "", op, Nil, <<l, r>>, <<>>)
Assign(name, value) == Node("Assign", name, "", Nil, <<value>>, <<>>)
\* kids[1] is the callee, the rest are the arguments
CallExpr(callee, args) == Node("Call", "", "", Nil, <<callee>> \o args, <<>>)

ExpressionStmt(e) == Node("Expression", "", "", Nil, <<e>>, <<>>)
LetStmt(name, e) == Node("Let", name, "", Nil, <<e>>, <<>>)
PrintStmt(e) == Node("Print", "", "", Nil, <<e>>, <<>>)
BlockStmt(stmts) == Node("Block", "", "", Nil, stmts, <<>>)
IfStmt(cond, then) == Node("If", "", "", Nil, <<cond, then>>, <<>>)
IfElseStmt(cond, then, else) == Node("If", "", "", Nil, <<cond, then, else>>, <<>>)
WhileStmt(cond, body) == Node("While", "", "", Nil, <<cond, body>>, <<>>)
FunctionStmt(name, params, body) == Node("Function", name, "", Nil, <<body>>, params)
ReturnStmt(e) == Node("Return", "", "", Nil, <<e>>, <<>>)
ReturnNil == Node("Return", "", "", Nil, <<>>, <<>>)

(***************************************************************************)
(* The compiler (compiler.rs).  A `?` of the source stops the compilation: *)
(* the model records the first error in c.error, the steps that follow a   *)
(* `?` hand a compiler that carries an error through as it is, and         *)
(* Compiler::compile returns the error instead of the chunk.               *)
(***************************************************************************)
compile_statements(c, stmts, i) ==
  IF i > Len(stmts) \/ c.error # "" THEN c
  ELSE compile_statements(compile_statement(c, stmts[i]), stmts, i + 1)

compile_arguments(c, kids, i) ==
  IF i > Len(kids) \/ c.error # "" THEN c
  ELSE compile_arguments(compile_expression(c, kids[i]), kids, i + 1)

\* a lowering that compiles the right operand before the left one
compile_binary_expression_RightFirst(c, binary) ==
  emit(compile_expression(compile_expression(c, binary.kids[2]), binary.kids[1]),
       Op(binary.op, 0, ""))

compile_binary_expression(c, binary) ==
  emit(compile_expression(compile_expression(c, binary.kids[1]), binary.kids[2]),
       Op(binary.op, 0, ""))

compile_unary_expression(c, unary) ==
  emit(compile_expression(c, unary.kids[1]),
       Op(IF unary.op = "Minus" THEN "Negate" ELSE "Not", 0, ""))

compile_logical_expression(c, logical) ==
  LET c1 == compile_expression(c, logical.kids[1])
      jump_address == current_address(c1)
      c2 == emit(c1, Op("JumpIfFalse", 0, ""))
  IN  IF logical.op = "And"
      THEN LET c3 == emit(c2, Op("Pop", 0, ""))
               c4 == compile_expression(c3, logical.kids[2])
               end_address == current_address(c4)
           IN  note(patch_jump(c4, jump_address, end_address),
                    Mark("and", "", jump_address, current_address(c3), end_address, FALSE))
      ELSE LET skip_right_jump == current_address(c2)
               c3 == emit(c2, Op("Jump", 0, ""))
               right_start == current_address(c3)
               c4 == emit(patch_jump(c3, jump_address, right_start), Op("Pop", 0, ""))
               c5 == compile_expression(c4, logical.kids[2])
               end_address == current_address(c5)
           IN  note(patch_jump(c5, skip_right_jump, end_address),
                    Mark("or", "", jump_address, current_address(c4), end_address, FALSE))

compile_call_expression(c, call) ==
  LET callee == call.kids[1]
      nargs == Len(call.kids) - 1
  IN  IF callee.type = "Variable" /\ callee.name = "print"
      THEN IF nargs # 1
           THEN compile_error(c, "print() expects exactly 1 argument")
           ELSE emit(compile_expression(c, call.kids[2]), Op("Print", 0, ""))
      ELSE IF callee.type = "Variable" /\ callee.name = "len"
      THEN IF nargs # 1
           THEN compile_error(c, "len() expects exactly 1 argument")
           ELSE compile_error(compile_expression(c, call.kids[2]), "len() not yet implemented")
      ELSE IF callee.type = "Variable" /\ callee.name = "str"
      THEN IF nargs # 1
           THEN compile_error(c, "str() expects exactly 1 argument")
           ELSE compile_error(compile_expression(c, call.kids[2]), "str() not yet implemented")
      ELSE emit(compile_expression(compile_arguments(c, call.kids, 2), callee),
                Op("Call", nargs, ""))

compile_if_statement(c, if_stmt) ==
  LET start == current_address(c)
      c1 == compile_expression(c, if_stmt.kids[1])
      then_jump == current_address(c1)
      c2 == emit(emit(c1, Op("JumpIfFalse", 0, "")), Op("Pop", 0, ""))
      c3 == compile_statement(c2, if_stmt.kids[2])
  IN  IF c3.error # "" THEN c3
      ELSE IF Len(if_stmt.kids) = 3
      THEN LET else_jump == current_address(c3)
               c4 == emit(c3, Op("Jump", 0, ""))
               else_start == current_address(c4)
               c5 == emit(patch_jump(c4, then_jump, else_start), Op("Pop", 0, ""))
               c6 == compile_statement(c5, if_stmt.kids[3])
               end_address == current_address(c6)
           IN  IF c6.error # "" THEN c6
               ELSE note(patch_jump(c6, else_jump, end_address),
                         Mark("if", "", start, then_jump, end_address, TRUE))
      ELSE LET end_address == current_address(c3)
               c4 == emit(patch_jump(c3, then_jump, end_address), Op("Pop", 0, ""))
           IN  note(c4, Mark("if", "", start, then_jump, current_address(c4), FALSE))

compile_while_statement(c, while_stmt) ==
  LET loop_start == current_address(c)
      c1 == compile_expression(c, while_stmt.kids[1])
      exit_jump == current_address(c1)
      c2 == emit(emit(c1, Op("JumpIfFalse", 0, "")), Op("Pop", 0, ""))
      body == compile_statement(c2, while_stmt.kids[2])
      c3 == emit(body, Op("Jump", loop_start, ""))
      end_address == current_address(c3)
      c4 == emit(patch_jump(c3, exit_jump, end_address), Op("Pop", 0, ""))
  IN  IF body.error # "" THEN body
      ELSE note(c4, Mark("while", "", loop_start, exit_jump, current_address(c4), FALSE))

\* a table entry that holds the address of the skip jump instead of the
\* address of the first instruction of the body
function_info_AtSkipJump(func_stmt, function_start) ==
  FunctionInfo(func_stmt.name, Len(func_stmt.params), function_start - 1, func_stmt.params)

\* the entry of Chunk::functions that a declaration inserts
function_info(func_stmt, function_start) ==
  FunctionInfo(func_stmt.name, Len(func_stmt.params), function_start, func_stmt.params)

\* a function declaration whose body is not closed by `Constant nil; Return`
compile_function_declaration_NoImplicitReturn(c, func_stmt) ==
  LET skip_jump == current_address(c)
      c1 == emit(c, Op("Jump", 0, ""))
      function_start == current_address(c1)
      c2 == [c1 EXCEPT !.functions[func_stmt.name] = function_info(func_stmt, function_start)]
      c3 == [begin_scope(c2) EXCEPT !.locals = @ \o func_stmt.params]
      c4 == compile_statement(c3, func_stmt.kids[1])
      c5 == end_scope(c4)
      function_end == current_address(c5)
      c6 == patch_jump(c5, skip_jump, function_end)
      func_value == Function(func_stmt.name, Len(func_stmt.params), function_start)
      c7 == emit(emit_constant(c6, func_value), Op("Store", 0, func_stmt.name))
  IN  IF c4.error # "" THEN c4
      ELSE note(c7, [Mark("fn", func_stmt.name, function_start, skip_jump, function_end, FALSE)
                       EXCEPT !.params = func_stmt.params])

compile_function_declaration(c, func_stmt) ==
  LET skip_jump == current_address(c)
      c1 == emit(c, Op("Jump", 0, ""))
      function_start == current_address(c1)
      c2 == [c1 EXCEPT !.functions[func_stmt.name] = function_info(func_stmt, function_start)]
      c3 == [begin_scope(c2) EXCEPT !.locals = @ \o func_stmt.params]
      c4 == compile_statement(c3, func_stmt.kids[1])
      c5 == end_scope(emit(emit_constant(c4, Nil), Op("Return", 0, "")))
      function_end == current_address(c5)
      c6 == patch_jump(c5, skip_jump, function_end)
      func_value == Function(func_stmt.name, Len(func_stmt.params), function_start)
      c7 == emit(emit_constant(c6, func_value), Op("Store", 0, func_stmt.name))
  IN  IF c4.error # "" THEN c4
      ELSE note(c7, [Mark("fn", func_stmt.name, function_start, skip_jump, function_end, FALSE)
                       EXCEPT !.params = func_stmt.params])

compile_statement(c, stmt) ==
  CASE c.error # "" -> c
    [] stmt.type = "Expression" ->
         expression_of(c, emit(compile_expression(c, stmt.kids[1]), Op("Pop", 0, "")))
    [] stmt.type = "Let" ->
         LET c1 == expression_of(c, emit(compile_expression(c, stmt.kids[1]),
                                         Op("Store", 0, stmt.name)))
         IN  IF Contains(c1.locals, stmt.name) THEN c1
             ELSE [c1 EXCEPT !.locals = Append(@, stmt.name)]
    [] stmt.type = "Print" ->
         expression_of(c, emit(compile_expression(c, stmt.kids[1]), Op("Print", 0, "")))
    [] stmt.type = "Block" ->
         LET start == current_address(c)
             inner == compile_statements(begin_scope(c), stmt.kids, 1)
             c1 == end_scope(inner)
         IN  IF inner.error # "" THEN inner
             ELSE note(c1, Mark("block", "", start, start, current_address(c1), FALSE))
    [] stmt.type = "If" -> compile_if_statement(c, stmt)
    [] stmt.type = "While" -> compile_while_statement(c, stmt)
    [] stmt.type = "Function" -> compile_function_declaration(c, stmt)
    [] stmt.type = "Return" ->
         LET start == current_address(c)
             c1 == emit(IF Len(stmt.kids) = 1 THEN compile_expression(c, stmt.kids[1])
                        ELSE emit_constant(c, Nil),
                        Op("Return", 0, ""))
         IN  note(c1, Mark("return", "", start, start, current_address(c1),
                           Len(stmt.kids) = 1))

\* The source has no arm for Expr::Assign.  The lowering is the one the
\* language specification gives: compile the value, emit STORE name.
compile_assign_expression(c, assign) ==
  emit(compile_expression(c, assign.kids[1]), Op("Store", 0, assign.name))

compile_expression(c, expr) ==
  CASE c.error # "" -> c
    [] expr.type = "Literal" -> emit_constant(c, expr.val)
    [] expr.type = "Variable" -> emit(c, Op("Load", 0, expr.name))
    [] expr.type = "Binary" -> compile_binary_expression(c, expr)
    [] expr.type = "Unary" -> compile_unary_expression(c, expr)
    [] expr.type = "Logical" -> compile_logical_expression(c, expr)
    [] expr.type = "Call" -> compile_call_expression(c, expr)
    [] expr.type = "Assign" -> compile_assign_expression(c, expr)

\* Compiler::compile: the chunk, or the compile error
compile(statements) ==
  LET c == emit(compile_statements(Compiler_new, statements, 1), Op("Halt", 0, ""))
  IN  [error |-> c.error,
       chunk |-> [code |-> c.code, constants |-> c.constants, functions |-> c.functions,
                  marks |-> c.marks]]


(***************************************************************************)
(* The VM (vm.rs).                                                         *)
(***************************************************************************)
CallFrame(function_name, return_address, stack_base) ==
  [function_name |-> function_name, return_address |-> return_address,
   stack_base |-> stack_base]

\* a JingError; line is the line of a LexError or ParseError and 0 for the other kinds
NoError == [kind |-> "", msg |-> "", line |-> 0]

runtime_error(msg) == [kind |-> "RuntimeError", msg |-> msg, line |-> 0]

\* what a call frame's caller looked like when CALL was executed
Caller(below, env, call_addr, args, function) ==
  [below |-> below, env |-> env, call_addr |-> call_addr, args |-> args, function |-> function]

NoCaller == Caller(<<>>, <<>>, 0, <<>>, Nil)

\* a step: the instruction, its address, whether it pushed or popped a call
\* frame, and the caller of the frame it popped
Step(op, at, name, pushed, popped, caller) ==
  [op |-> op, at |-> at, name |-> name, pushed |-> pushed, popped |-> popped,
   caller |-> caller]

NoStep == Step("", 0, "", FALSE, FALSE, NoCaller)

\* an instruction without the addresses that depend on where its function
\* was compiled: a jump target counts from the start of the body, and a
\* constant is the value itself
Relocatable(code, constants, start, i) ==
  LET op == code[i + 1]
  IN  [op |-> op.op, name |-> op.name,
       arg |-> IF op.op \in {"Jump", "JumpIfFalse"} THEN op.arg - start
               ELSE IF op.op = "Constant" THEN 0 ELSE op.arg,
       value |-> IF op.op = "Constant" /\ op.arg < Len(constants)
                 THEN LET v == constants[op.arg + 1]
                      IN  IF v.kind = "Function" THEN [v EXCEPT !.n = @ - start] ELSE v
                 ELSE Nil]

\* the instructions of the range [start, start + len), relocatable
BodyCode(code, constants, start, len) ==
  [k \in 1..len |-> Relocatable(code, constants, start, start + k - 1)]

NoDeclaration == [line |-> 0, start |-> 0, params |-> <<>>, body |-> <<>>]

\* the declaration whose closing STORE is at address a, if there is one
DeclarationAt(a, value, line) ==
  LET ms == {m \in chunk.marks : /\ m.kind = "fn" /\ m.exit + 1 = a /\ m.name = value.name
                                  /\ m.start = value.n}
  IN  IF value.kind # "Function" \/ ms = {} THEN NoDeclaration
      ELSE LET m == CHOOSE m1 \in ms : TRUE
           IN  [line |-> line, start |-> m.start, params |-> m.params,
                body |-> BodyCode(chunk.code, chunk.constants, m.start, m.exit - m.start)]

\* Vec::truncate.  A usize that wrapped below zero (2^64 - k in the source)
\* is kept as -k: it is larger than the length of any vector.
truncate(seq, len) == IF len >= 0 /\ len < Len(seq) THEN SubSeq(seq, 1, len) ELSE seq

\* Vec::pop applied k times, on a vector that may be shorter than k
pop_n(seq, k) == IF Len(seq) <= k THEN <<>> ELSE SubSeq(seq, 1, Len(seq) - k)

(***************************************************************************)
(* Bookkeeping of the if statements and blocks in execution.  It reads the *)
(* VM and never changes it.  A region is entered when the instruction      *)
(* pointer arrives at its first instruction and is completed when the      *)
(* pointer arrives, in the same call frame, at the first instruction after *)
(* it; a RETURN abandons the regions of the frame it pops.                 *)
(***************************************************************************)
Unwind(regs, frames) ==
  IF regs # <<>> /\ regs[Len(regs)].frames > frames
  THEN Unwind(SubSeq(regs, 1, Len(regs) - 1), frames)
  ELSE regs

Leave(regs, done, ip2, stack2, env2, frames) ==
  IF regs # <<>> /\ regs[Len(regs)].mark.exit = ip2 /\ regs[Len(regs)].frames = frames
  THEN LET r == regs[Len(regs)]
       IN  Leave(SubSeq(regs, 1, Len(regs) - 1),
                 done \cup {[mark |-> r.mark, entry_depth |-> r.depth, exit_depth |-> Len(stack2),
                             entry_env |-> r.env, exit_env |-> env2]},
                 ip2, stack2, env2, frames)
  ELSE [regions |-> regs, exits |-> done]

Enter(regs, marks, stack2, env2, frames) ==
  IF marks = {} THEN regs
  ELSE LET m == CHOOSE m1 \in marks : \A m2 \in marks : m2.exit <= m1.exit
       IN  Enter(Append(regs, [mark |-> m, depth |-> Len(stack2), env |-> env2,
                               frames |-> frames]),
                 marks \ {m}, stack2, env2, frames)

Track(marks, regs, ip2, stack2, env2, frames) ==
  LET left == Leave(Unwind(regs, frames), {}, ip2, stack2, env2, frames)
      inside == {left.regions[i].mark : i \in {j \in 1..Len(left.regions) :
                                                 left.regions[j].frames = frames}}
      entered == {m \in marks : /\ m.kind \in {"if", "block"}
                                /\ m.start = ip2
                                /\ m.start # m.exit
                                /\ m \notin inside}
  IN  [regions |-> Enter(left.regions, entered, stack2, env2, frames), exits |-> left.exits]

(***************************************************************************)
(* One iteration of the loop of VM::run ends in Update: the new VM state   *)
(* and, when run returns in this iteration, how.                           *)
(***************************************************************************)
Top(seq) == seq[Len(seq)]

Running == status = "running" /\ steps < MaxSteps

Fetched == Running /\ ip < Len(chunk.code)

instruction == chunk.code[ip + 1]

Update(ip2, stack2, globals2, calls2, shadow2, status2, error2, out2) ==
  /\ ip' = ip2
  /\ stack' = stack2
  /\ globals' = globals2
  /\ call_stack' = calls2
  /\ shadow' = shadow2
  /\ status' = status2
  /\ error' = error2
  /\ out' = out2
  /\ steps' = steps + 1
  /\ last' = IF Len(shadow2) < Len(shadow)
             THEN Step(instruction.op, ip, instruction.name, FALSE, TRUE, Top(shadow))
             ELSE Step(instruction.op, ip, instruction.name, Len(shadow2) > Len(shadow),
                       FALSE, NoCaller)
  /\ declared' = IF instruction.op = "Store" /\ stack # <<>>
                 THEN [declared EXCEPT ![instruction.name] =
                         DeclarationAt(ip, Top(stack), evals)]
                 ELSE declared
  /\ LET t == IF status2 = "running"
              THEN Track(chunk.marks, regions, ip2, stack2, globals2, Len(calls2))
              ELSE [regions |-> regions, exits |-> {}]
     IN  regions' = t.regions /\ exits' = t.exits
  /\ instruction.op # "Call" => invoked' = invoked
  /\ UNCHANGED <<chunk, evals, source, aside>>

\* the instruction leaves new_stack and execution goes on at ip + 1
Continue(new_stack) ==
  Update(ip + 1, new_stack, globals, call_stack, shadow, "running", NoError, out)

\* run returns Err(err); the stack keeps what the instruction had not yet popped
Fail(new_stack, err) ==
  Update(ip + 1, new_stack, globals, call_stack, shadow, "error", err, out)

ExecConstant ==
  /\ Fetched /\ instruction.op = "Constant"
  /\ IF instruction.arg < Len(chunk.constants)
     THEN Continue(Append(stack, chunk.constants[instruction.arg + 1]))
     ELSE Fail(stack, runtime_error("Invalid constant index"))

(***************************************************************************)
(* The registry (registry/mod.rs) after jing::init(); of the functions     *)
(* that builtins::init_builtins registers the model keeps abs and max      *)
(* (builtins/math.rs).                                                     *)
(***************************************************************************)
RegisteredBuiltins == {"abs", "max"}

\* registry::get_builtin(name).is_some()
get_builtin(name) == name \in RegisteredBuiltins

\* BuiltinFunction::arity
builtin_arity(name) == IF name = "abs" THEN 1 ELSE 2

\* BuiltinFunction::call of AbsFunction and MaxFunction
builtin_call(name, args) ==
  IF name = "abs"
  THEN IF args[1].kind = "Number"
       THEN Ok(Ratio(Abs(args[1].n), args[1].d))
       ELSE Err("TypeError", "abs() expects a number")
  ELSE IF args[1].kind = "Number" /\ args[2].kind = "Number"
       THEN Ok(IF args[1].n * args[2].d >= args[2].n * args[1].d THEN args[1] ELSE args[2])
       ELSE Err("TypeError", "max() expects two numbers")

\* a LOAD that looks in the function table before the environment
ExecLoad_TableFirst ==
  /\ Fetched /\ instruction.op = "Load"
  /\ LET name == instruction.name
         value == get(globals, name)
         func_info == chunk.functions[name]
     IN  IF func_info.name # ""
         THEN Continue(Append(stack, Function(func_info.name, func_info.arity,
                                              func_info.start_address)))
         ELSE IF value.ok
         THEN Continue(Append(stack, value.value))
         ELSE IF get_builtin(name)
         THEN Continue(Append(stack, BuiltinFunction(name)))
         ELSE Fail(stack, runtime_error("Undefined variable or function"))

ExecLoad ==
  /\ Fetched /\ instruction.op = "Load"
  /\ LET name == instruction.name
         value == get(globals, name)
         func_info == chunk.functions[name]
     IN  IF value.ok
         THEN Continue(Append(stack, value.value))
         ELSE IF func_info.name # ""
         THEN Continue(Append(stack, Function(func_info.name, func_info.arity,
                                              func_info.start_address)))
         ELSE IF get_builtin(name)
         THEN Continue(Append(stack, BuiltinFunction(name)))
         ELSE Fail(stack, runtime_error("Undefined variable or function"))

ExecStore ==
  /\ Fetched /\ instruction.op = "Store"
  /\ IF stack = <<>>
     THEN Fail(stack, runtime_error("Stack underflow"))
     ELSE Update(ip + 1, pop_n(stack, 1), define(globals, instruction.name, Top(stack)),
                 call_stack, shadow, "running", NoError, out)

ExecPop ==
  /\ Fetched /\ instruction.op = "Pop"
  /\ IF stack = <<>>
     THEN Fail(stack, runtime_error("Stack underflow"))
     ELSE Continue(pop_n(stack, 1))

BinaryOps == {"Add", "Subtract", "Multiply", "Divide", "Modulo", "Equal", "NotEqual",
              "Less", "LessEqual", "Greater", "GreaterEqual", "And", "Or"}

\* `a.equals(&b) || a.less_than(&b)?`: equal operands never reach the comparison
or_equals_EqualsFirst(r, a, b) ==
  IF equals(a, b) THEN Ok(Bool(TRUE)) ELSE r

\* `a.less_than(&b)? || a.equals(&b)` and its mirror image
or_equals(r, a, b) == IF r.ok THEN Ok(Bool(r.value.n = 1 \/ equals(a, b))) ELSE r

BinaryResult(op, a, b) ==
  CASE op = "Add" -> add(a, b)
    [] op = "Subtract" -> subtract(a, b)
    [] op = "Multiply" -> multiply(a, b)
    [] op = "Divide" -> divide(a, b)
    [] op = "Modulo" -> modulo(a, b)
    [] op = "Equal" -> Ok(Bool(equals(a, b)))
    [] op = "NotEqual" -> Ok(Bool(~equals(a, b)))
    [] op = "Less" -> less_than(a, b)
    [] op = "LessEqual" -> or_equals(less_than(a, b), a, b)
    [] op = "Greater" -> greater_than(a, b)
    [] op = "GreaterEqual" -> or_equals(greater_than(a, b), a, b)
    [] op = "And" -> Ok(IF is_truthy(a) THEN b ELSE a)
    [] op = "Or" -> Ok(IF is_truthy(a) THEN a ELSE b)

ExecBinary ==
  /\ Fetched /\ instruction.op \in BinaryOps
  /\ IF Len(stack) < 2
     THEN Fail(<<>>, runtime_error("Stack underflow"))
     ELSE LET b == stack[Len(stack)]
              a == stack[Len(stack) - 1]
              result == BinaryResult(instruction.op, a, b)
          IN  IF result.ok
              THEN Continue(Append(pop_n(stack, 2), result.value))
              ELSE Fail(pop_n(stack, 2), [kind |-> result.kind, msg |-> result.msg, line |-> 0])

ExecUnary ==
  /\ Fetched /\ instruction.op \in {"Negate", "Not"}
  /\ IF stack = <<>>
     THEN Fail(stack, runtime_error("Stack underflow"))
     ELSE LET result == IF instruction.op = "Negate" THEN negate(Top(stack))
                        ELSE Ok(not(Top(stack)))
          IN  IF result.ok
              THEN Continue(Append(pop_n(stack, 1), result.value))
              ELSE Fail(pop_n(stack, 1), [kind |-> result.kind, msg |-> result.msg, line |-> 0])

\* a JUMP that lands one instruction before its operand
ExecJump_OneShort ==
  /\ Fetched /\ instruction.op = "Jump"
  /\ Update(instruction.arg - 1, stack, globals, call_stack, shadow, "running", NoError, out)

ExecJump ==
  /\ Fetched /\ instruction.op = "Jump"
  /\ Update(instruction.arg, stack, globals, call_stack, shadow, "running", NoError, out)

\* a JUMP_IF_FALSE that pops the value it tests
ExecJumpIfFalse_Popping ==
  /\ Fetched /\ instruction.op = "JumpIfFalse"
  /\ IF stack = <<>>
     THEN Fail(stack, runtime_error("Empty stack"))
     ELSE Update(IF is_falsy(Top(stack)) THEN instruction.arg ELSE ip + 1,
                 pop_n(stack, 1), globals, call_stack, shadow, "running", NoError, out)

ExecJumpIfFalse ==
  /\ Fetched /\ instruction.op = "JumpIfFalse"
  /\ IF stack = <<>>
     THEN Fail(stack, runtime_error("Empty stack"))
     ELSE Update(IF is_falsy(Top(stack)) THEN instruction.arg ELSE ip + 1,
                 stack, globals, call_stack, shadow, "running", NoError, out)

\* a get_function_args that collects the arguments from the top of the stack down
get_function_args_TopDown(stk, arity) == [i \in 1..arity |-> stk[Len(stk) - i]]

\* VM::get_function_args on a stack that holds the arity arguments and the callee
get_function_args(stk, arity) == SubSeq(stk, Len(stk) - arity, Len(stk) - 1)

\* the loop of call_function that binds the parameters: locals[i] for i < arity
bind_parameters(env, locals, args, arity, i) ==
  IF i > Len(locals) THEN env
  ELSE bind_parameters(IF i - 1 < arity THEN define(env, locals[i], args[i]) ELSE env,
                       locals, args, arity, i + 1)

\* `function.call(args)` as the host sees it: the callable and its arguments
HostCall(name, args) == [name |-> name, args |-> args]

\* an arity check that only rejects a call with too few arguments
arity_mismatch_TooFew(arity, expected_arity) == arity < expected_arity

\* `if arity != expected_arity` and `if arity != function.arity()`
arity_mismatch(arity, expected_arity) == arity # expected_arity

\* the ways call_function can go for a user function: `stack.len() - arity - 1`
\* underflows when the stack is shorter than arity + 1.  get_function_args
\* then panics in every build (overflow check, or index out of bounds after
\* wrapping); without a function table entry only the frame's stack_base is
\* computed, which panics in a build with overflow checks and wraps otherwise.
CallOutcomes(arity, has_info) ==
  IF Len(stack) >= arity + 1 THEN {"call"}
  ELSE IF has_info THEN {"panic"}
  ELSE {"panic", "wrap"}

ExecCall ==
  /\ Fetched /\ instruction.op = "Call"
  /\ LET arity == instruction.arg
     IN  IF stack = <<>>
         THEN Fail(stack, runtime_error("Stack index out of bounds")) /\ UNCHANGED invoked
         ELSE LET function == Top(stack)
              IN  IF function.kind = "BuiltinFunction"
                  THEN IF arity_mismatch(arity, builtin_arity(function.name))
                       THEN /\ Fail(stack, runtime_error("Builtin function expects a different number of arguments"))
                            /\ UNCHANGED invoked
                       ELSE IF Len(stack) < arity + 1
                       THEN /\ Update(ip + 1, stack, globals, call_stack, shadow, "panic",
                                      NoError, out)
                            /\ UNCHANGED invoked
                       ELSE LET args == get_function_args(stack, arity)
                                result == builtin_call(function.name, args)
                            IN  /\ invoked' = Append(invoked, HostCall(function.name, args))
                                /\ IF result.ok
                                   THEN Continue(Append(pop_n(stack, arity + 1), result.value))
                                   ELSE Fail(stack, [kind |-> result.kind, msg |-> result.msg, line |-> 0])
                  ELSE IF function.kind # "Function"
                  THEN Fail(stack, runtime_error("Can only call functions")) /\ UNCHANGED invoked
                  ELSE IF arity_mismatch(arity, function.arity)
                  THEN /\ Fail(stack, runtime_error("Function expects a different number of arguments"))
                       /\ UNCHANGED invoked
                  ELSE LET func_info == chunk.functions[function.name]
                           has_info == func_info.name # ""
                       IN  /\ UNCHANGED invoked
                           /\ \E outcome \in CallOutcomes(arity, has_info) :
                             IF outcome = "panic"
                             THEN Update(ip + 1, stack, globals, call_stack, shadow, "panic",
                                         NoError, out)
                             ELSE LET stack_base == Len(stack) - arity - 1
                                      new_globals ==
                                        IF has_info
                                        THEN bind_parameters(globals, func_info.locals,
                                                             get_function_args(stack, arity),
                                                             arity, 1)
                                        ELSE globals
                                      frame == CallFrame(function.name, ip + 1, stack_base)
                                  IN  Update(function.n, pop_n(stack, arity + 1), new_globals,
                                             Append(call_stack, frame),
                                             Append(shadow,
                                                    Caller(pop_n(stack, arity + 1), globals, ip,
                                                           IF Len(stack) >= arity + 1
                                                           THEN get_function_args(stack, arity)
                                                           ELSE <<>>,
                                                           function)),
                                             "running", NoError, out)

ExecReturn ==
  /\ Fetched /\ instruction.op = "Return"
  /\ IF call_stack # <<>>
     THEN LET frame == Top(call_stack)
              frames == pop_n(call_stack, 1)
          IN  IF stack = <<>>
              THEN Update(ip + 1, stack, globals, frames, pop_n(shadow, 1), "error",
                          runtime_error("Stack underflow"), out)
              ELSE Update(frame.return_address,
                          Append(truncate(pop_n(stack, 1), frame.stack_base), Top(stack)),
                          globals, frames, pop_n(shadow, 1), "running", NoError, out)
     ELSE Update(ip + 1, stack, globals, call_stack, shadow, "returned", NoError, out)

\* a PRINT that reads the top of the stack without popping it
ExecPrint_Peeking ==
  /\ Fetched /\ instruction.op = "Print"
  /\ IF stack = <<>>
     THEN Fail(stack, runtime_error("Stack underflow"))
     ELSE Update(ip + 1, stack, globals, call_stack, shadow, "running", NoError,
                 Append(out, Top(stack)))

ExecPrint ==
  /\ Fetched /\ instruction.op = "Print"
  /\ IF stack = <<>>
     THEN Fail(stack, runtime_error("Stack underflow"))
     ELSE Update(ip + 1, pop_n(stack, 1), globals, call_stack, shadow, "running", NoError,
                 Append(out, Top(stack)))

ExecHalt ==
  /\ Fetched /\ instruction.op = "Halt"
  /\ Update(ip + 1, stack, globals, call_stack, shadow, "halted", NoError, out)

\* `if self.ip >= self.chunk.code.len() { break; }`
RunOffEnd ==
  /\ Running /\ ip >= Len(chunk.code)
  /\ status' = "ended"
  /\ last' = NoStep
  /\ exits' = {}
  /\ UNCHANGED <<chunk, ip, stack, globals, call_stack, error, out, steps, evals, shadow,
                 regions, declared, invoked, source, aside>>


(***************************************************************************)
(* The programs of the exploration: every statement list the parser can    *)
(* produce from the expression and statement shapes below.                 *)
(***************************************************************************)
One == Literal(Number(1))
Two == Literal(Number(2))
True == Literal(Bool(TRUE))
False == Literal(Bool(FALSE))

Atoms == {One, True, False, Literal(Nil), Variable("x")}

\* calls; `print(1)` inside a larger expression stays a call expression
Calls ==
  {CallExpr(Variable("f"), <<>>), CallExpr(Variable("f"), <<One>>),
   CallExpr(Variable("f"), <<False>>), CallExpr(Variable("f"), <<Two, One>>),
   CallExpr(Variable("g"), <<One>>),
   CallExpr(Variable("f"), <<One, CallExpr(Variable("f"), <<>>)>>),
   CallExpr(Variable("x"), <<>>), CallExpr(Variable("print"), <<One>>),
   CallExpr(Variable("len"), <<One>>),
   CallExpr(Variable("abs"), <<Unary("Minus", One)>>), CallExpr(Variable("abs"), <<True>>),
   CallExpr(Variable("abs"), <<>>), CallExpr(Variable("abs"), <<One, Two>>),
   CallExpr(Variable("max"), <<One, Two>>), CallExpr(Variable("max"), <<Two, One>>)}

Operands == {One, Variable("x"), Literal(Nil)}

Exprs ==
  Atoms \cup Calls
    \cup {Binary(op, l, r) : op \in {"Add", "Less", "Equal"}, l \in Operands, r \in Operands}
    \cup {Binary(op, One, r) : op \in {"Equal", "Multiply"}, r \in Calls}
    \cup {Binary(op, Two, One) : op \in BinaryOps \ {"And", "Or"}}
    \cup {Unary(op, e) : op \in {"Minus", "Not"}, e \in {One, True, Variable("x")}}
    \cup {Logical(op, l, r) : op \in {"And", "Or"}, l \in {True, False, Variable("x")},
                              r \in {One, Variable("y"), CallExpr(Variable("f"), <<>>)}}

SimpleStmts ==
  {ExpressionStmt(e) : e \in Exprs} \cup {LetStmt("x", e) : e \in Exprs}
    \cup {PrintStmt(e) : e \in Exprs} \cup {ReturnStmt(e) : e \in Exprs} \cup {ReturnNil}

\* the statements that occur inside blocks and branches
Inner ==
  {LetStmt("y", One), LetStmt("x", Two), LetStmt("x", False), PrintStmt(Variable("x")),
   ReturnStmt(One), ReturnStmt(Variable("a")), ReturnNil,
   ExpressionStmt(CallExpr(Variable("f"), <<False>>)),
   ReturnStmt(CallExpr(Variable("f"), <<False>>)),
   ReturnStmt(Binary("Multiply", Variable("a"), Two))}

Blocks == {BlockStmt(<<>>)} \cup {BlockStmt(<<s>>) : s \in Inner}

Conds == {True, False, Variable("x"), Variable("a"), Literal(Nil),
          Logical("And", Variable("x"), False)}

Branches == Blocks \cup {PrintStmt(One)}

IfStmts ==
  {IfStmt(c, b) : c \in Conds, b \in Branches}
    \cup {IfElseStmt(c, b, e) : c \in Conds, b \in Branches,
                                e \in {BlockStmt(<<>>), BlockStmt(<<LetStmt("y", One)>>),
                                       BlockStmt(<<ReturnStmt(One)>>)}}

WhileStmts == {WhileStmt(c, b) : c \in {True, False, Variable("x")}, b \in Branches}

Compound == Blocks \cup IfStmts \cup WhileStmts

\* function bodies: a block of one or two statements
Bodies ==
  Blocks
    \cup {BlockStmt(<<s>>) : s \in {IfStmt(True, BlockStmt(<<>>)),
                                    IfStmt(Variable("a"), BlockStmt(<<>>)),
                                    WhileStmt(Variable("a"), BlockStmt(<<ReturnStmt(One)>>)),
                                    LetStmt("y", CallExpr(Variable("print"), <<One>>))}}
    \cup {BlockStmt(<<IfStmt(Variable("a"), b), ReturnStmt(One)>>) :
            b \in {BlockStmt(<<ReturnStmt(CallExpr(Variable("f"), <<False>>))>>),
                   BlockStmt(<<ReturnStmt(Two)>>), BlockStmt(<<>>)}}

Params == {<<>>, <<"a">>, <<"x">>, <<"f">>, <<"a", "x">>}

FunctionStmts ==
  {FunctionStmt("f", ps, b) : ps \in Params, b \in Bodies}
    \cup {FunctionStmt("g", <<"a">>, BlockStmt(<<ReturnStmt(CallExpr(Variable("f"), <<Variable("a")>>))>>))}

Stmts == SimpleStmts \cup Compound \cup FunctionStmts

\* what follows declarations in a program
Uses ==
  {ExpressionStmt(e) : e \in Calls} \cup {PrintStmt(e) : e \in Calls}
    \cup {ExpressionStmt(Binary("Equal", One, c)) : c \in Calls}
    \cup {PrintStmt(Variable("x")), PrintStmt(Variable("y")), PrintStmt(Variable("f")),
          LetStmt("x", CallExpr(Variable("f"), <<One>>))}

Lets == {LetStmt("x", One), LetStmt("x", True)}

\* two declarations of one name, and a call before, between or after them
Redeclared ==
  LET first == FunctionStmt("f", <<"a">>, BlockStmt(<<ReturnStmt(Variable("a"))>>))
      second == FunctionStmt("f", <<"x">>, BlockStmt(<<ReturnStmt(Two)>>))
      call == PrintStmt(CallExpr(Variable("f"), <<One>>))
  IN  {<<first, second, call>>, <<first, call, second>>, <<call, first, second>>}

\* deeper nesting of loops, branches, logical expressions and declarations
Nested ==
  LET inner == IfElseStmt(Logical("Or", Variable("a"), False),
                          BlockStmt(<<ReturnStmt(One)>>), BlockStmt(<<LetStmt("x", False)>>))
      loop == WhileStmt(Logical("And", Variable("x"), True), BlockStmt(<<inner>>))
      decl == FunctionStmt("f", <<"a">>, BlockStmt(<<loop, ReturnStmt(Two)>>))
  IN  {<<LetStmt("x", True), decl, PrintStmt(CallExpr(Variable("f"), <<a>>))>> : a \in {Literal(Nil), One}}
        \cup {<<LetStmt("x", True), loop>>, <<decl>>,
              <<LetStmt("x", True),
                WhileStmt(Variable("x"), BlockStmt(<<LetStmt("x", False), decl>>))>>}

\* a name that is a variable, a declared function and a registered function
Shadowing ==
  LET decl == FunctionStmt("abs", <<"a">>, BlockStmt(<<ReturnStmt(Two)>>))
      call == PrintStmt(CallExpr(Variable("abs"), <<Unary("Minus", One)>>))
  IN  {<<decl, LetStmt("abs", One), PrintStmt(Variable("abs"))>>,
       <<call, decl>>, <<decl, call>>,
       <<LetStmt("max", One), PrintStmt(Variable("max"))>>}

\* `let i = 0; while i < N { print(i); i = i + 1; }`
CountingLoop(N) ==
  <<LetStmt("i", Literal(Number(0))),
    WhileStmt(Binary("Less", Variable("i"), Literal(Number(N))),
              BlockStmt(<<PrintStmt(Variable("i")),
                          ExpressionStmt(Assign("i", Binary("Add", Variable("i"), One)))>>))>>

CountingLoops == {CountingLoop(N) : N \in 0..MaxCount}

\* `fn f(n) { if n <= 1 { return 1; } return n * f(n - 1); } print(f(k));`
FactorialProgram(k) ==
  LET base == IfStmt(Binary("LessEqual", Variable("n"), One), BlockStmt(<<ReturnStmt(One)>>))
      rec == CallExpr(Variable("f"), <<Binary("Subtract", Variable("n"), One)>>)
      step == ReturnStmt(Binary("Multiply", Variable("n"), rec))
  IN  <<FunctionStmt("f", <<"n">>, BlockStmt(<<base, step>>)),
        PrintStmt(CallExpr(Variable("f"), <<Literal(Number(k))>>))>>

FactorialPrograms == {FactorialProgram(k) : k \in 1..MaxArg}

\* the operand kinds of the arithmetic and comparison instructions
OperandKinds ==
  {Literal(Nil), True, Literal(Number(0)), One, Literal(String(<<97>>)),
   Literal(String(<<98>>)), Variable("f")}

\* `fn f() { } print(l op r);`
Operations ==
  {<<FunctionStmt("f", <<>>, BlockStmt(<<>>)), PrintStmt(Binary(op, l, r))>> :
     op \in {"Add", "Divide", "Modulo", "Less", "LessEqual", "Greater", "GreaterEqual"},
     l \in OperandKinds, r \in OperandKinds}

Programs ==
  {<<>>} \cup {<<s>> : s \in Stmts}
    \cup {<<d, u>> : d \in FunctionStmts, u \in Uses}
    \cup {<<d, u>> : d \in Lets \cup Blocks, u \in Uses \cup IfStmts \cup WhileStmts}
    \cup {<<u, d>> : u \in {ExpressionStmt(CallExpr(Variable("f"), <<One>>))}, d \in FunctionStmts}
    \cup {<<l, d, u>> : l \in Lets, d \in FunctionStmts,
                        u \in {ExpressionStmt(CallExpr(Variable("f"), <<One>>)),
                               PrintStmt(CallExpr(Variable("f"), <<>>))}}
    \cup {<<d, e, u>> : d \in {FunctionStmt("f", <<"a">>, b) : b \in Bodies},
                        e \in {s \in FunctionStmts : s.name = "g"},
                        u \in {PrintStmt(CallExpr(Variable("g"), <<One>>))}}
    \cup Redeclared \cup Nested \cup Shadowing \cup CountingLoops \cup FactorialPrograms
    \cup Operations

\* the lines typed after the first one in an interactive session
ReplLines ==
  {<<s>> : s \in {ExpressionStmt(CallExpr(Variable("f"), <<>>)),
                  ExpressionStmt(CallExpr(Variable("f"), <<One>>)),
                  PrintStmt(CallExpr(Variable("f"), <<One>>)),
                  PrintStmt(Variable("x")), PrintStmt(Variable("y")),
                  LetStmt("x", Two), ReturnStmt(One),
                  FunctionStmt("g", <<"a">>, BlockStmt(<<ReturnStmt(Variable("a"))>>)),
                  IfElseStmt(Variable("x"), BlockStmt(<<>>), BlockStmt(<<>>))}}

CompiledPrograms == {compile(p) : p \in Programs}

CompiledLines == {compile(p) : p \in ReplLines}

(***************************************************************************)
(* The parser (parser.rs) on the tokens of the sources below: let,         *)
(* identifiers, numbers, `=`, `+`, `;`, `,`, parentheses and newlines.     *)
(* The precedence levels whose operators are not among these tokens hand   *)
(* their operand through.  current counts from 0 as in the source.         *)
(***************************************************************************)
Token(type, name, value, line) == [type |-> type, name |-> name, value |-> value, line |-> line]

\* Lexer::tokenize on the lexemes of a source: a token carries the line it
\* starts on, a newline ends the line, and Eof carries the last line
tokenize(lexemes, i, line) ==
  IF i > Len(lexemes) THEN <<Token("Eof", "", 0, line)>>
  ELSE <<Token(lexemes[i].type, lexemes[i].name, lexemes[i].value, line)>>
         \o tokenize(lexemes, i + 1, IF lexemes[i].type = "Newline" THEN line + 1 ELSE line)

\* Ok(node) with the parser at position current
Parsed(current, node) ==
  [ok |-> TRUE, current |-> current, node |-> node, msg |-> "", line |-> 0]

\* JingError::parse_error(message, line)
parse_error(message, line) ==
  [ok |-> FALSE, current |-> 0, node |-> Literal(Nil), msg |-> message, line |-> line]

peek(tokens, current) == tokens[current + 1]

is_at_end(tokens, current) == peek(tokens, current).type = "Eof"

check(tokens, current, type) ==
  ~is_at_end(tokens, current) /\ peek(tokens, current).type = type

current_line(tokens, current) ==
  IF is_at_end(tokens, current)
  THEN IF tokens = <<>> THEN 1 ELSE tokens[Len(tokens)].line
  ELSE peek(tokens, current).line

consume(tokens, current, type, message) ==
  IF check(tokens, current, type)
  THEN Parsed(current + 1, Literal(Nil))
  ELSE parse_error(message, current_line(tokens, current))

consume_identifier(tokens, current, message) ==
  IF peek(tokens, current).type = "Identifier"
  THEN Parsed(current + 1, Variable(peek(tokens, current).name))
  ELSE parse_error(message, current_line(tokens, current))

\* the `?` after a parsing step: an error is returned as it is, a value is
\* handed to the rest of the method
Try(result, rest(_)) == IF result.ok THEN rest(result) ELSE result

expression(tokens, current) == assignment(tokens, current)

primary(tokens, current) ==
  CASE peek(tokens, current).type = "Number" ->
         Parsed(current + 1, Literal(Number(peek(tokens, current).value)))
    [] peek(tokens, current).type = "Identifier" ->
         Parsed(current + 1, Variable(peek(tokens, current).name))
    [] peek(tokens, current).type = "LeftParen" ->
         Try(expression(tokens, current + 1), LAMBDA expr :
         Try(consume(tokens, expr.current, "RightParen", "Expected ')' after expression"),
             LAMBDA close : Parsed(close.current, expr.node)))
    [] OTHER -> parse_error("Expected expression", current_line(tokens, current))

\* the argument loop of Parser::call; the node holds the arguments as kids
arguments(tokens, current, args) ==
  Try(expression(tokens, current), LAMBDA arg :
      IF check(tokens, arg.current, "Comma")
      THEN arguments(tokens, arg.current + 1, Append(args, arg.node))
      ELSE Parsed(arg.current, Node("Arguments", "", "", Nil, Append(args, arg.node), <<>>)))

\* the `while self.match_token(&TokenType::LeftParen)` loop of Parser::call
call_loop(tokens, expr) ==
  IF ~check(tokens, expr.current, "LeftParen") THEN expr
  ELSE Try(IF check(tokens, expr.current + 1, "RightParen")
           THEN Parsed(expr.current + 1, Node("Arguments", "", "", Nil, <<>>, <<>>))
           ELSE arguments(tokens, expr.current + 1, <<>>), LAMBDA args :
       Try(consume(tokens, args.current, "RightParen", "Expected ')' after arguments"),
           LAMBDA close :
       call_loop(tokens, Parsed(close.current, CallExpr(expr.node, args.node.kids)))))

call(tokens, current) ==
  Try(primary(tokens, current), LAMBDA expr : call_loop(tokens, expr))

RECURSIVE unary(_, _)
RECURSIVE factor_loop(_, _)
RECURSIVE comparison_loop(_, _)
RECURSIVE equality_loop(_, _)
RECURSIVE logical_and_loop(_, _)
RECURSIVE logical_or_loop(_, _)

\* the operator that the token at current stands for at a level of the
\* grammar, "" when it stands for none (the match_*_operator functions)
match_operator(tokens, current, operators) ==
  IF ~is_at_end(tokens, current) /\ peek(tokens, current).type \in DOMAIN operators
  THEN operators[peek(tokens, current).type]
  ELSE ""

match_unary_operator(tokens, current) ==
  match_operator(tokens, current, [Bang |-> "Not", Not |-> "Not", Minus |-> "Minus"])

match_factor_operator(tokens, current) ==
  match_operator(tokens, current,
                 [Slash |-> "Divide", Star |-> "Multiply", Percent |-> "Modulo"])

match_term_operator(tokens, current) ==
  match_operator(tokens, current, [Minus |-> "Subtract", Plus |-> "Add"])

match_comparison_operator(tokens, current) ==
  match_operator(tokens, current,
                 [Greater |-> "Greater", GreaterEqual |-> "GreaterEqual",
                  Less |-> "Less", LessEqual |-> "LessEqual"])

match_equality_operator(tokens, current) ==
  match_operator(tokens, current, [BangEqual |-> "NotEqual", EqualEqual |-> "Equal"])

unary(tokens, current) ==
  IF match_unary_operator(tokens, current) # ""
  THEN Try(unary(tokens, current + 1), LAMBDA expr :
           Parsed(expr.current, Unary(match_unary_operator(tokens, current), expr.node)))
  ELSE call(tokens, current)

\* the `while let Some(operator) = self.match_factor_operator()` loop
factor_loop(tokens, expr) ==
  IF match_factor_operator(tokens, expr.current) = "" THEN expr
  ELSE Try(unary(tokens, expr.current + 1), LAMBDA right :
           factor_loop(tokens, Parsed(right.current,
                                      Binary(match_factor_operator(tokens, expr.current),
                                             expr.node, right.node))))

factor(tokens, current) ==
  Try(unary(tokens, current), LAMBDA expr : factor_loop(tokens, expr))

\* a term loop that takes everything after the operator as the right operand
term_loop_RightAssociative(tokens, expr) ==
  IF match_term_operator(tokens, expr.current) = "" THEN expr
  ELSE Try(term(tokens, expr.current + 1), LAMBDA right :
           Parsed(right.current,
                  Binary(match_term_operator(tokens, expr.current), expr.node, right.node)))

\* the `while let Some(operator) = self.match_term_operator()` loop
term_loop(tokens, expr) ==
  IF match_term_operator(tokens, expr.current) = "" THEN expr
  ELSE Try(factor(tokens, expr.current + 1), LAMBDA right :
           term_loop(tokens, Parsed(right.current,
                                    Binary(match_term_operator(tokens, expr.current),
                                           expr.node, right.node))))

term(tokens, current) ==
  Try(factor(tokens, current), LAMBDA expr : term_loop(tokens, expr))

comparison_loop(tokens, expr) ==
  IF match_comparison_operator(tokens, expr.current) = "" THEN expr
  ELSE Try(term(tokens, expr.current + 1), LAMBDA right :
           comparison_loop(tokens, Parsed(right.current,
                                          Binary(match_comparison_operator(tokens, expr.current),
                                                 expr.node, right.node))))

comparison(tokens, current) ==
  Try(term(tokens, current), LAMBDA expr : comparison_loop(tokens, expr))

equality_loop(tokens, expr) ==
  IF match_equality_operator(tokens, expr.current) = "" THEN expr
  ELSE Try(comparison(tokens, expr.current + 1), LAMBDA right :
           equality_loop(tokens, Parsed(right.current,
                                        Binary(match_equality_operator(tokens, expr.current),
                                               expr.node, right.node))))

equality(tokens, current) ==
  Try(comparison(tokens, current), LAMBDA expr : equality_loop(tokens, expr))

\* the `while self.match_token(&TokenType::And)` loop
logical_and_loop(tokens, expr) ==
  IF ~check(tokens, expr.current, "And") THEN expr
  ELSE Try(equality(tokens, expr.current + 1), LAMBDA right :
           logical_and_loop(tokens, Parsed(right.current,
                                           Logical("And", expr.node, right.node))))

logical_and(tokens, current) ==
  Try(equality(tokens, current), LAMBDA expr : logical_and_loop(tokens, expr))

\* the `while self.match_token(&TokenType::Or)` loop
logical_or_loop(tokens, expr) ==
  IF ~check(tokens, expr.current, "Or") THEN expr
  ELSE Try(logical_and(tokens, expr.current + 1), LAMBDA right :
           logical_or_loop(tokens, Parsed(right.current,
                                          Logical("Or", expr.node, right.node))))

logical_or(tokens, current) ==
  Try(logical_and(tokens, current), LAMBDA expr : logical_or_loop(tokens, expr))

assignment(tokens, current) ==
  Try(logical_or(tokens, current), LAMBDA expr :
      IF check(tokens, expr.current, "Equal")
      THEN Try(assignment(tokens, expr.current + 1), LAMBDA value :
               IF expr.node.type = "Variable"
               THEN Parsed(value.current, Assign(expr.node.name, value.node))
               ELSE parse_error("Invalid assignment target", 0))
      ELSE expr)

expression_statement(tokens, current) ==
  Try(expression(tokens, current), LAMBDA expr :
  Try(consume(tokens, expr.current, "Semicolon", "Expected ';' after expression"),
      LAMBDA semicolon :
      Parsed(semicolon.current,
             IF /\ expr.node.type = "Call"
                /\ expr.node.kids[1] = Variable("print")
                /\ Len(expr.node.kids) = 2
             THEN PrintStmt(expr.node.kids[2])
             ELSE ExpressionStmt(expr.node))))

let_declaration(tokens, current) ==
  Try(consume_identifier(tokens, current, "Expected variable name"), LAMBDA name :
  Try(consume(tokens, name.current, "Equal", "Expected '=' after variable name"),
      LAMBDA equal :
  Try(expression(tokens, equal.current), LAMBDA initializer :
  Try(consume(tokens, initializer.current, "Semicolon",
              "Expected ';' after variable declaration"), LAMBDA semicolon :
      Parsed(semicolon.current, LetStmt(name.node.name, initializer.node))))))

\* Parser::declaration and Parser::statement: of their keywords the sources
\* only have let
declaration(tokens, current) ==
  IF check(tokens, current, "Let") THEN let_declaration(tokens, current + 1)
  ELSE expression_statement(tokens, current)

\* the loop of Parser::parse; an error of a statement is returned as it is
parse_loop(tokens, current, statements) ==
  IF is_at_end(tokens, current)
  THEN [ok |-> TRUE, statements |-> statements, msg |-> "", line |-> 0]
  ELSE IF check(tokens, current, "Newline") THEN parse_loop(tokens, current + 1, statements)
  ELSE Try(declaration(tokens, current), LAMBDA stmt :
           parse_loop(tokens, stmt.current, Append(statements, stmt.node)))

parse(tokens) == parse_loop(tokens, 0, <<>>)

(***************************************************************************)
(* The lexer (lexer.rs) on the characters of Chars.  input is the vector   *)
(* of characters, current counts from 0 as in the source.                  *)
(***************************************************************************)
Quote == "\""

Backslash == "\\"

Newline == "\n"

\* what peek() and advance() return at the end of the input
Nul == ""

Lexer_is_at_end(input, current) == current >= Len(input)

Lexer_peek(input, current) ==
  IF Lexer_is_at_end(input, current) THEN Nul ELSE input[current + 1]

\* JingError::lex_error(message, line); at is where the token began
lex_error(message, line, at) ==
  [ok |-> FALSE, tokens |-> <<>>, msg |-> message, line |-> line, at |-> at]

\* the position after the whitespace that starts at current
skip_whitespace(input, current) ==
  IF Lexer_peek(input, current) \in {" ", "\r", "\t"}
  THEN skip_whitespace(input, current + 1)
  ELSE current

\* the characters an escape sequence adds to the value of a string
escape(c) ==
  CASE c = "n" -> <<Newline>>
    [] c = "t" -> <<"\t">>
    [] c = "r" -> <<"\r">>
    [] c = Backslash -> <<Backslash>>
    [] c = Quote -> <<Quote>>
    [] OTHER -> <<Backslash, c>>

\* the while loop of Lexer::string: where it stops, the line counter and the value
string_loop(input, current, line, value) ==
  IF Lexer_peek(input, current) # Quote /\ ~Lexer_is_at_end(input, current)
  THEN IF input[current + 1] = Backslash /\ ~Lexer_is_at_end(input, current + 1)
       THEN string_loop(input, current + 2,
                        IF Lexer_peek(input, current) = Newline THEN line + 1 ELSE line,
                        value \o escape(input[current + 2]))
       ELSE string_loop(input, current + 1,
                        IF Lexer_peek(input, current) = Newline THEN line + 1 ELSE line,
                        Append(value, input[current + 1]))
  ELSE [current |-> current, line |-> line, value |-> value]

\* Lexer::string, called after the opening quote at position current - 1
string(input, current, line, start_line) ==
  LET end == string_loop(input, current, line, <<>>)
  IN  IF Lexer_is_at_end(input, end.current)
      THEN lex_error("Unterminated string", start_line, current - 1)
      ELSE [ok |-> TRUE, current |-> end.current + 1, line |-> end.line,
            tokens |-> <<Token("String", "", end.value, start_line)>>]

\* the while loop of Lexer::identifier
identifier_loop(input, current) ==
  IF Lexer_peek(input, current) \in {"a", "_"}
  THEN identifier_loop(input, current + 1)
  ELSE current

\* Lexer::identifier, called after the first character at position current - 1
identifier(input, current, line, start_line) ==
  [ok |-> TRUE, current |-> identifier_loop(input, current), line |-> line,
   tokens |-> <<Token("Identifier", "",
                      SubSeq(input, current, identifier_loop(input, current)),
                      start_line)>>]

\* Lexer::next_token with the lexer at position current of line line: the
\* token it returns, if any, and where it leaves the lexer
next_token(input, current, line) ==
  LET start == skip_whitespace(input, current)
      c == Lexer_peek(input, start)
  IN  CASE Lexer_is_at_end(input, start) ->
             [ok |-> TRUE, current |-> start, line |-> line, tokens |-> <<>>]
        [] c = Quote -> string(input, start + 1, line, line)
        [] c = Newline ->
             [ok |-> TRUE, current |-> start + 1, line |-> line + 1,
              tokens |-> <<Token("Newline", "", <<>>, line)>>]
        [] c \in {"a", "_"} -> identifier(input, start + 1, line, line)
        [] OTHER -> lex_error("Unexpected character", line, start)

\* the loop of Lexer::tokenize
Lexer_tokenize_loop(input, current, line, tokens) ==
  IF Lexer_is_at_end(input, current)
  THEN [ok |-> TRUE, tokens |-> Append(tokens, Token("Eof", "", <<>>, line)),
        msg |-> "", line |-> 0, at |-> 0]
  ELSE LET next == next_token(input, current, line)
       IN  IF next.ok
           THEN Lexer_tokenize_loop(input, next.current, next.line, tokens \o next.tokens)
           ELSE next

Lexer_tokenize(input) == Lexer_tokenize_loop(input, 0, 1, <<>>)

(***************************************************************************)
(* The sources of the exploration that are given by their lexemes and go   *)
(* through the parser: assignments with and without a valid target, and    *)
(* statements that end early.  Sources start a session, SourceLines are    *)
(* entered later in it.                                                    *)
(***************************************************************************)
Lexeme(type, name, value) == [type |-> type, name |-> name, value |-> value]

Ident(name) == Lexeme("Identifier", name, 0)

Num(n) == Lexeme("Number", "", n)

Punct(type) == Lexeme(type, "", 0)

Sources ==
  LET let_x == <<Punct("Let"), Ident("x"), Punct("Equal"), Num(1), Punct("Semicolon")>>
  IN  { <<Ident("x"), Punct("Equal"), Num(1), Punct("Semicolon")>>,                 \* x = 1;
        <<Num(1), Punct("Equal"), Ident("x"), Punct("Semicolon")>>,                 \* 1 = x;
        <<Ident("x"), Punct("Plus"), Num(1), Punct("Equal"), Num(2),
          Punct("Semicolon")>>,                                                     \* x + 1 = 2;
        <<Ident("x"), Punct("Equal"), Ident("y"), Punct("Equal"), Num(1),
          Punct("Semicolon")>>,                                                     \* x = y = 1;
        <<Punct("Let"), Ident("x"), Punct("Equal"), Num(1)>>,                       \* let x = 1
        <<Punct("Let"), Punct("Equal"), Num(1), Punct("Semicolon")>>,               \* let = 1;
        <<Punct("Let"), Ident("x"), Num(1), Punct("Semicolon")>>,                   \* let x 1;
        <<Punct("LeftParen"), Ident("x"), Punct("Semicolon")>>,                     \* (x;
        <<Punct("Semicolon")>>,                                                     \* ;
        <<Ident("abs"), Punct("LeftParen"), Num(1), Punct("Comma"), Num(2),
          Punct("Semicolon")>>,                                                     \* abs(1, 2;
        <<Ident("max"), Punct("LeftParen"), Num(1), Punct("Comma"), Num(2),
          Punct("RightParen"), Punct("Semicolon")>>,                                \* max(1, 2);
        <<Ident("print"), Punct("LeftParen"), Num(1), Punct("Plus"), Num(2),
          Punct("RightParen"), Punct("Semicolon")>>,                                \* print(1 + 2);
        <<Ident("abs"), Punct("LeftParen"), Num(1), Punct("RightParen")>>,          \* abs(1)
        let_x \o <<Punct("Newline"), Num(1), Punct("Equal"), Ident("x"),
                   Punct("Semicolon")>>,                              \* let x = 1; / 1 = x;
        let_x \o <<Punct("Newline"), Punct("Newline"), Punct("Let"), Ident("y"),
                   Punct("Equal"), Punct("Semicolon")>>,              \* let x = 1; / / let y = ;
        let_x \o <<Punct("Newline"), Ident("print"), Punct("LeftParen"), Ident("x"),
                   Punct("RightParen"), Punct("Semicolon"), Punct("Newline")>> }
                                                                      \* let x = 1; / print(x); /

SourceLines ==
  { <<Ident("x"), Punct("Equal"), Num(2), Punct("Semicolon")>>,                 \* x = 2;
    <<Ident("f"), Punct("LeftParen"), Num(1), Punct("RightParen"), Punct("Equal"),
      Num(2), Punct("Semicolon")>> }                                            \* f(1) = 2;

(***************************************************************************)
(* The inputs of the lexer when it is called on its own: every text of up  *)
(* to MaxText characters of Chars.                                         *)
(***************************************************************************)
\* The inputs of the parser when it is called on its own: the expressions of
\* up to MaxOperands operands without parentheses, an operand being a
\* primary or a primary under two unary operators.
UnaryLexemes ==
  {<<Num(1)>>, <<Ident("a")>>, <<Punct("Bang"), Punct("Minus"), Ident("a")>>}

OperatorLexemes ==
  {Punct(type) : type \in {"Minus", "Star", "Less", "EqualEqual", "And", "Or"}}

ExpressionLexemes(n) ==
  IF n = 1 THEN UnaryLexemes
  ELSE {e \o <<o>> \o u : e \in ExpressionLexemes(n - 1), o \in OperatorLexemes,
                          u \in UnaryLexemes}

ExpressionSources == UNION {ExpressionLexemes(n) : n \in 1..MaxOperands}

Chars == {Quote, Backslash, Newline, "a", " "}

Texts == UNION {[1..n -> Chars] : n \in 0..MaxText}

\* the ports the HTTP builtins are called with
Ports == {8080, 8081}

\* the thread of the VM is in no HTTP builtin
Idle == [pc |-> "idle", port |-> 0, handle |-> 0]

\* the string an HTTP builtin returns, or the message of its error
Reply(message, port) == [message |-> message, port |-> port, list |-> {}]

\* a call on the Environment: the operation, its arguments, whether it
\* returned Ok, the value it returned, the frames it removed and the
\* operation of the call before it
EnvCall(op, name, value, ok, result, removed, after) ==
  [op |-> op, name |-> name, value |-> value, ok |-> ok, result |-> result,
   removed |-> removed, after |-> after]

\* before the first tokenize call and the first parse call
NoTokens == [ok |-> TRUE, tokens |-> <<>>, msg |-> "", line |-> 0, at |-> 0]

NotParsed == [tokens |-> <<>>, ok |-> TRUE, statements |-> <<>>, msg |-> "", line |-> 0]

(***************************************************************************)
(* REPL::eval and VM::interpret (vm.rs).                                   *)
(***************************************************************************)
Init ==
  /\ chunk = Chunk_new
  /\ ip = 0
  /\ stack = <<>>
  /\ globals = Environment_new
  /\ call_stack = <<>>
  /\ status = "idle"
  /\ error = NoError
  /\ out = <<>>
  /\ steps = 0
  /\ evals = 0
  /\ shadow = <<>>
  /\ regions = <<>>
  /\ exits = {}
  /\ last = NoStep
  /\ declared = [nm \in Names |-> NoDeclaration]
  /\ invoked = <<>>
  /\ source = <<>>
  /\ text = <<>>
  /\ lexed = NoTokens
  /\ parsed = NotParsed
  /\ environment = Environment_new
  /\ env_call = EnvCall("new", "", Nil, TRUE, Nil, <<>>, "")
  /\ servers = [port \in Ports |-> 0]
  /\ handles = <<>>
  /\ http_caller = Idle
  /\ http_reply = Reply("", 0)
  /\ started = {}

\* REPL::run calls eval again whatever the previous eval returned; a panic
\* ends the process
CanEval == status \in {"idle", "halted", "returned", "ended", "error", "compile_error",
                       "parse_error"}

\* an interpret that starts every chunk with a new Environment
interpret_FreshGlobals(new_chunk) ==
  /\ chunk' = new_chunk
  /\ ip' = 0
  /\ status' = "running"
  /\ error' = NoError
  /\ regions' = Track(new_chunk.marks, <<>>, 0, stack, Environment_new, Len(call_stack)).regions
  /\ globals' = Environment_new
  /\ UNCHANGED <<stack, call_stack, shadow>>

interpret(new_chunk) ==
  /\ chunk' = new_chunk
  /\ ip' = 0
  /\ status' = "running"
  /\ error' = NoError
  /\ regions' = Track(new_chunk.marks, <<>>, 0, stack, globals, Len(call_stack)).regions
  /\ UNCHANGED <<stack, globals, call_stack, shadow>>

\* what REPL::eval does with the outcome of the compiler
compile_and_interpret(compiled) ==
  /\ IF compiled.error = ""
     THEN interpret(compiled.chunk)
     ELSE /\ status' = "compile_error"
          /\ error' = [kind |-> "CompileError", msg |-> compiled.error, line |-> 0]
          /\ UNCHANGED <<chunk, ip, stack, globals, call_stack, shadow, regions>>
  /\ evals' = evals + 1
  /\ steps' = 0
  /\ out' = <<>>
  /\ exits' = {}
  /\ last' = NoStep
  /\ invoked' = <<>>
  /\ UNCHANGED <<declared, aside>>

\* REPL::eval of a source that parses, given by its statements
Eval ==
  /\ CanEval /\ evals < MaxEvals
  /\ \E compiled \in IF evals = 0 THEN CompiledPrograms ELSE CompiledLines :
       compile_and_interpret(compiled)
  /\ source' = <<>>

\* `parser.parse()` in REPL::eval, on each source
parsed_sources ==
  [lexemes \in Sources \cup SourceLines |-> parse(tokenize(lexemes, 1, 1))]

\* `compiler.compile(statements)` in REPL::eval, on each source that parses
compiled_sources ==
  [statements \in {parsed_sources[lexemes].statements :
                     lexemes \in {l \in Sources \cup SourceLines : parsed_sources[l].ok}}
     |-> compile(statements)]

\* REPL::eval of a source given by its lexemes: the `?` after parse() returns
\* the parse error before anything is compiled or run
EvalSource ==
  /\ CanEval /\ evals < MaxEvals
  /\ \E lexemes \in IF evals = 0 THEN Sources ELSE SourceLines :
       \E statements \in {parsed_sources[lexemes]} :
         /\ source' = tokenize(lexemes, 1, 1)
         /\ IF statements.ok
            THEN compile_and_interpret(compiled_sources[statements.statements])
            ELSE /\ status' = "parse_error"
                 /\ error' = [kind |-> "ParseError", msg |-> statements.msg,
                              line |-> statements.line]
                 /\ evals' = evals + 1
                 /\ UNCHANGED <<chunk, ip, stack, globals, call_stack, shadow, regions,
                                steps, out, exits, last, invoked, declared, aside>>

Next ==
  \/ Eval
  \/ EvalSource
  \/ ExecConstant
  \/ ExecLoad
  \/ ExecStore
  \/ ExecPop
  \/ ExecBinary
  \/ ExecUnary
  \/ ExecJump
  \/ ExecJumpIfFalse
  \/ ExecCall
  \/ ExecReturn
  \/ ExecPrint
  \/ ExecHalt
  \/ RunOffEnd

Spec == Init /\ [][Next]_vars

(***************************************************************************)
(* The lexer and the parser called on their own, as the tests of           *)
(* lexer_tests.rs, parser_tests.rs and error_tests.rs call them.           *)
(***************************************************************************)
\* Lexer::new(input).tokenize(); a lexer is made for one input
Tokenize ==
  /\ lexed = NoTokens
  /\ \E input \in Texts :
       /\ text' = input
       /\ lexed' = Lexer_tokenize(input)
  /\ UNCHANGED <<parsed, vm_vars, env_vars, http_vars>>

LexerNext ==
  \/ Tokenize

LexerSpec == Init /\ [][LexerNext]_vars

\* Parser::new(tokens).parse() on the tokens of an expression statement; a
\* parser is made for one vector of tokens
Parse ==
  /\ parsed = NotParsed
  /\ \E lexemes \in ExpressionSources :
       \E tokens \in {tokenize(lexemes \o <<Punct("Semicolon")>>, 1, 1)} :
         \E result \in {parse(tokens)} :
           parsed' = [tokens |-> tokens, ok |-> result.ok, statements |-> result.statements,
                      msg |-> result.msg, line |-> result.line]
  /\ UNCHANGED <<text, lexed, vm_vars, env_vars, http_vars>>

ParserNext ==
  \/ Parse

ParserSpec == Init /\ [][ParserNext]_vars

(***************************************************************************)
(* The HTTP builtins (builtins/http.rs).  The VM calls them one at a time; *)
(* every start_http_server that makes a handle spawns a thread that runs   *)
(* start_server, and the steps of these threads interleave with the calls  *)
(* and with the sleep inside start_http_server.                            *)
(***************************************************************************)
\* ServerHandle { port, running } and where the thread spawned with it is:
\* "spawned" before TcpListener::bind, "loop" at the test of the while loop,
\* "accepting" inside timeout(accept), "failed" after bind returned an error,
\* "exited" after start_server returned Ok
ServerHandle(port, running, pc) == [port |-> port, running |-> running, pc |-> pc]

\* the thread holds the listening socket of its port
Listening(h) == handles[h].pc \in {"loop", "accepting"}

\* StartHttpServerFunction::call up to thread::sleep
StartHttpServer ==
  /\ http_caller = Idle
  /\ \E port \in Ports \cup {80} :
       IF port < 8000 \/ port > 9999
       THEN /\ http_reply' = Reply("Port must be between 8000 and 9999", port)
            /\ UNCHANGED <<servers, handles, http_caller>>
       ELSE IF servers[port] # 0
       THEN /\ http_reply' = Reply("Server already running on port", port)
            /\ UNCHANGED <<servers, handles, http_caller>>
       ELSE /\ Len(handles) < MaxStarts
            /\ handles' = Append(handles, ServerHandle(port, TRUE, "spawned"))
            /\ servers' = [servers EXCEPT ![port] = Len(handles) + 1]
            /\ http_caller' = [pc |-> "sleeping", port |-> port, handle |-> Len(handles) + 1]
            /\ UNCHANGED http_reply
  /\ UNCHANGED <<started, vm_vars, front_vars, env_vars>>

\* StartHttpServerFunction::call after thread::sleep
StartHttpServerReturns ==
  /\ http_caller.pc = "sleeping"
  /\ http_reply' = Reply("HTTP server started on port", http_caller.port)
  /\ started' = started \cup {http_caller.handle}
  /\ http_caller' = Idle
  /\ UNCHANGED <<servers, handles, vm_vars, front_vars, env_vars>>

\* StopHttpServerFunction::call
StopHttpServer ==
  /\ http_caller = Idle
  /\ \E port \in Ports :
       IF servers[port] # 0
       THEN /\ servers' = [servers EXCEPT ![port] = 0]
            /\ handles' = [handles EXCEPT ![servers[port]].running = FALSE]
            /\ http_reply' = Reply("HTTP server on port stopped", port)
       ELSE /\ http_reply' = Reply("No server running on port", port)
            /\ UNCHANGED <<servers, handles>>
  /\ UNCHANGED <<http_caller, started, vm_vars, front_vars, env_vars>>

\* ListHttpServersFunction::call: the ports of the registry, each with the
\* flag of its handle
ListHttpServers ==
  /\ http_caller = Idle
  /\ http_reply' = IF \A port \in Ports : servers[port] = 0
                   THEN Reply("No HTTP servers running", 0)
                   ELSE [Reply("Running HTTP servers", 0) EXCEPT
                           !.list = {<<port, handles[servers[port]].running>> :
                                       port \in {p \in Ports : servers[p] # 0}}]
  /\ UNCHANGED <<servers, handles, http_caller, started, vm_vars, front_vars, env_vars>>

\* `TcpListener::bind(addr).await?`: the bind fails when a thread of this
\* process still holds the socket of the port, and it can fail for a reason
\* outside the process
Bind(h) ==
  /\ h \in 1..Len(handles) /\ handles[h].pc = "spawned"
  /\ \E bound \in IF \E g \in 1..Len(handles) : Listening(g) /\ handles[g].port = handles[h].port
                   THEN {FALSE} ELSE {TRUE, FALSE} :
       handles' = [handles EXCEPT ![h].pc = IF bound THEN "loop" ELSE "failed"]
  /\ UNCHANGED <<servers, http_caller, http_reply, started, vm_vars, front_vars, env_vars>>

\* a loop that goes on to accept without reading the flag
CheckRunning_Unconditional(h) ==
  /\ h \in 1..Len(handles) /\ handles[h].pc = "loop"
  /\ handles' = [handles EXCEPT ![h].pc = "accepting"]
  /\ UNCHANGED <<servers, http_caller, http_reply, started, vm_vars, front_vars, env_vars>>

\* `while *running.lock().unwrap()`
CheckRunning(h) ==
  /\ h \in 1..Len(handles) /\ handles[h].pc = "loop"
  /\ handles' = [handles EXCEPT ![h].pc = IF handles[h].running THEN "accepting" ELSE "exited"]
  /\ UNCHANGED <<servers, http_caller, http_reply, started, vm_vars, front_vars, env_vars>>

\* `timeout(100 ms, listener.accept())`: a connection, which gets its own
\* task, an error of accept, which breaks the loop, or the timeout
Accept(h) ==
  /\ h \in 1..Len(handles) /\ handles[h].pc = "accepting"
  /\ \E outcome \in {"connection", "error", "timeout"} :
       handles' = [handles EXCEPT ![h].pc = IF outcome = "error" THEN "exited" ELSE "loop"]
  /\ UNCHANGED <<servers, http_caller, http_reply, started, vm_vars, front_vars, env_vars>>

\* a step of the thread spawned for handle h
start_server(h) ==
  \/ Bind(h)
  \/ CheckRunning(h)
  \/ Accept(h)

HttpNext ==
  \/ StartHttpServer
  \/ StartHttpServerReturns
  \/ StopHttpServer
  \/ ListHttpServers
  \/ \E h \in 1..MaxStarts : Bind(h)
  \/ \E h \in 1..MaxStarts : CheckRunning(h)
  \/ \E h \in 1..MaxStarts : Accept(h)

HttpSpec == Init /\ [][HttpNext]_vars

\* every spawned thread keeps running: the operating system schedules it,
\* and accept returns after 100 ms at the latest
HttpFairSpec == HttpSpec /\ \A h \in 1..MaxStarts : WF_vars(start_server(h))

(***************************************************************************)
(* An Environment called on its own, as value.rs offers it: any sequence   *)
(* of push_scope, pop_scope, define, get and set on the names EnvNames     *)
(* with the values EnvValues, with at most MaxDepth frames.                *)
(***************************************************************************)
EnvNames == {"x", "y"}

EnvValues == {Number(1), Number(2)}

PushScope ==
  /\ Len(environment) < MaxDepth
  /\ environment' = push_scope(environment)
  /\ env_call' = EnvCall("push_scope", "", Nil, TRUE, Nil, <<>>, env_call.op)
  /\ UNCHANGED <<vm_vars, front_vars, http_vars>>

PopScope ==
  /\ environment' = pop_scope(environment)
  /\ env_call' = EnvCall("pop_scope", "", Nil, TRUE, Nil,
                         IF Len(environment') < Len(environment)
                         THEN <<environment[Len(environment)]>> ELSE <<>>,
                         env_call.op)
  /\ UNCHANGED <<vm_vars, front_vars, http_vars>>

Define ==
  /\ \E name \in EnvNames, value \in EnvValues :
       /\ environment' = define(environment, name, value)
       /\ env_call' = EnvCall("define", name, value, TRUE, Nil, <<>>, env_call.op)
  /\ UNCHANGED <<vm_vars, front_vars, http_vars>>

Get ==
  /\ \E name \in EnvNames :
       env_call' = EnvCall("get", name, Nil, get(environment, name).ok,
                           get(environment, name).value, <<>>, env_call.op)
  /\ UNCHANGED <<environment, vm_vars, front_vars, http_vars>>

Set ==
  /\ \E name \in EnvNames, value \in EnvValues :
       /\ environment' = set(environment, name, value).env
       /\ env_call' = EnvCall("set", name, value, set(environment, name, value).ok,
                              Nil, <<>>, env_call.op)
  /\ UNCHANGED <<vm_vars, front_vars, http_vars>>

EnvNext ==
  \/ PushScope
  \/ PopScope
  \/ Define
  \/ Get
  \/ Set

EnvSpec == Init /\ [][EnvNext]_vars


(***************************************************************************)
(* Properties.                                                             *)
(***************************************************************************)
\* the first eval of a session: a program run on the VM that VM::new built
FirstRun == evals = 1

\* the VM is about to execute the instruction at ip
AtInstruction(op) ==
  status = "running" /\ ip < Len(chunk.code) /\ chunk.code[ip + 1].op = op

FnMarks == {m \in chunk.marks : m.kind = "fn"}

\* the address lies in the body of a function declaration
InFunctionBody(a) == \E m \in FnMarks : m.start <= a /\ a < m.exit

\* C1: a program that runs to HALT on a fresh VM leaves the value stack and
\* the call-frame stack empty.
C1_HaltLeavesStacksEmpty ==
  (FirstRun /\ status = "halted") => (stack = <<>> /\ call_stack = <<>>)

C1_Witness ==
  /\ FirstRun /\ status = "halted" /\ stack = <<>> /\ call_stack = <<>>
  /\ \E m \in chunk.marks : m.kind = "fn"
  /\ \E m \in chunk.marks : m.kind = "while"
  /\ \E m \in chunk.marks : m.kind = "if"
  /\ out = <<Number(1)>>

\* C2: when an if statement has run, the value stack is as deep as it was
\* before the condition was evaluated.
C2_IfPopsConditionOnce ==
  \A e \in exits : e.mark.kind = "if" => e.exit_depth = e.entry_depth

\* the names that the instructions of the range [from, to) store
StoredIn(from, to) ==
  {chunk.code[i + 1].name : i \in {j \in from..(to - 1) : chunk.code[j + 1].op = "Store"}}

\* every STORE of the name lies in a block that does not contain the address,
\* and the name is no parameter and no function
DeclaredOnlyInOtherBlocks(name, a) ==
  /\ \A m \in FnMarks : m.name # name /\ ~Contains(m.params, name)
  /\ \A i \in 0..(Len(chunk.code) - 1) :
       (chunk.code[i + 1].op = "Store" /\ chunk.code[i + 1].name = name)
         => \E b \in chunk.marks : /\ b.kind = "block" /\ b.start <= i /\ i < b.exit
                                   /\ ~(b.start <= a /\ a < b.exit)

\* C3: after a block, the names it declared are bound as they were before
\* the block, and a LOAD of a name that only other blocks declare fails.
C3_ScopeIsolation ==
  /\ \A e \in exits :
       e.mark.kind = "block" =>
         \A nm \in StoredIn(e.mark.start, e.mark.exit) : get(e.exit_env, nm) = get(e.entry_env, nm)
  /\ (FirstRun /\ last.op = "Load" /\ ~get_builtin(last.name)
        /\ DeclaredOnlyInOtherBlocks(last.name, last.at))
       => status = "error"

\* C4: when a call has returned, every name that was bound at the CALL is
\* bound to the value it had then.
C4_CallPreservesCallerBindings ==
  (last.op = "Return" /\ last.popped) =>
    \A nm \in Names :
      get(last.caller.env, nm).ok => get(globals, nm) = get(last.caller.env, nm)

\* C6 as stated: a RETURN is only ever executed with a call frame to pop.
C6_ReturnHasFrame == AtInstruction("Return") => call_stack # <<>>

\* C6, amended: on a fresh VM a RETURN inside a function body is executed
\* with a call frame to pop, and a RETURN outside every function body is
\* executed with no call frame and ends the run.
C6_ReturnInBodyHasFrame ==
  FirstRun =>
    /\ (AtInstruction("Return") /\ InFunctionBody(ip)) => call_stack # <<>>
    /\ (AtInstruction("Return") /\ ~InFunctionBody(ip)) => call_stack = <<>>
    /\ (last.op = "Return" /\ ~InFunctionBody(last.at)) => status = "returned"
    /\ status = "returned" => (last.op = "Return" /\ ~InFunctionBody(last.at))

C6_Witness ==
  FirstRun /\ AtInstruction("Return") /\ InFunctionBody(ip) /\ Len(call_stack) = 2

\* C7: a RETURN leaves the stack that lay below the arguments and the callee
\* with the return value on top, and execution goes on after the CALL.
C7_ReturnRestoresCallerStack ==
  (last.op = "Return" /\ last.popped /\ status = "running") =>
    /\ stack # <<>>
    /\ pop_n(stack, 1) = last.caller.below
    /\ ip = last.caller.call_addr + 1


\* C5: a call, on a later line, of a function that an earlier line declared
\* binds the parameters of the declaration to the arguments and enters the
\* code of the declared body.
C5_FunctionsCarryAcrossLines ==
  (last.op = "Call" /\ last.pushed /\ status = "running") =>
    LET callee == Top(shadow)
        decl == declared[callee.function.name]
    IN  (/\ decl.line # 0 /\ decl.line < evals
         /\ decl.start = callee.function.n
         /\ Len(decl.params) = callee.function.arity
         /\ Len(callee.args) = callee.function.arity)
          => /\ \A i \in 1..Len(decl.params) : get(globals, decl.params[i]) = Ok(callee.args[i])
             /\ ip + Len(decl.body) <= Len(chunk.code)
             /\ BodyCode(chunk.code, chunk.constants, ip, Len(decl.body)) = decl.body

\* the VM executes an instruction in this step
Executes == status = "running" /\ steps' = steps + 1

\* C8: the test of `a and b` with a falsy a, and the test of `a or b` with a
\* truthy a, lead to the first instruction after b and leave a on the stack.
C8_ShortCircuit ==
  [][\A m \in chunk.marks :
       /\ (m.kind = "and" /\ Executes /\ ip = m.start /\ stack # <<>> /\ is_falsy(Top(stack)))
            => (status' = "running" /\ ip' = m.exit /\ stack' = stack)
       /\ (m.kind = "or" /\ Executes /\ ip = m.start /\ stack # <<>> /\ is_truthy(Top(stack)))
            => (status' = "running" /\ ip' = m.start + 1 /\ stack' = stack)
       /\ (m.kind = "or" /\ Executes /\ ip = m.start + 1)
            => (status' = "running" /\ ip' = m.exit /\ stack' = stack /\ is_truthy(Top(stack)))
       /\ (m.kind \in {"and", "or"} /\ Executes /\ stack # <<>>
             /\ ip = m.start /\ (m.kind = "and") = is_truthy(Top(stack)))
            => ip' # m.exit
    ]_vars

\* the right operand of a skipped `and` is a call
C8_Witness ==
  /\ last.op = "JumpIfFalse" /\ status = "running" /\ stack # <<>> /\ is_falsy(Top(stack))
  /\ \E m \in chunk.marks :
       /\ m.kind = "and" /\ m.start = last.at /\ ip = m.exit
       /\ \E i \in m.mid..(m.exit - 1) : chunk.code[i + 1].op = "Call"

\* the jump at address i has the target that the statement or expression it
\* belongs to computed for it
Patched(i, target) ==
  \E m \in chunk.marks :
    \/ m.kind = "and" /\ i = m.start /\ target = m.exit
    \/ m.kind = "or" /\ i = m.start /\ target = m.start + 2
    \/ m.kind = "or" /\ i = m.start + 1 /\ target = m.exit
    \/ m.kind = "if" /\ ~m.flag /\ i = m.mid /\ target = m.exit - 1
    \/ /\ m.kind = "if" /\ m.flag /\ i = m.mid /\ target > i + 2 /\ target < m.exit
       /\ chunk.code[target] = Op("Jump", m.exit, "")
       /\ chunk.code[target + 1].op = "Pop"
    \/ /\ m.kind = "if" /\ m.flag /\ i > m.mid /\ target = m.exit
       /\ chunk.code[m.mid + 1].arg = i + 1
    \/ m.kind = "while" /\ i = m.mid /\ target = m.exit - 1
    \/ m.kind = "while" /\ i = m.exit - 2 /\ target = m.start
    \/ m.kind = "fn" /\ i = m.mid /\ target = m.exit

\* C9: every jump of a compiled chunk has been patched and targets an
\* instruction of the chunk.
C9_JumpTargetsInRange ==
  \A i \in 0..(Len(chunk.code) - 1) :
    chunk.code[i + 1].op \in {"Jump", "JumpIfFalse"} =>
      /\ 0 <= chunk.code[i + 1].arg /\ chunk.code[i + 1].arg < Len(chunk.code)
      /\ Patched(i, chunk.code[i + 1].arg)

C9_Witness ==
  /\ status = "running" /\ ip = 0
  /\ {"fn", "while", "if", "and", "or"} \subseteq {m.kind : m \in chunk.marks}
  /\ \E m \in chunk.marks : m.kind = "if" /\ m.flag

\* C10: the function table and the function constant hold the address of
\* the first instruction of the body, the skip jump lands behind the
\* trailing RETURN, and the body only runs inside a call.
C10_FunctionEntryOffsets ==
  /\ \A m \in FnMarks :
       /\ chunk.code[m.mid + 1] = Op("Jump", m.exit, "")
       /\ m.start = m.mid + 1
       /\ chunk.code[m.exit].op = "Return"
       /\ chunk.code[m.exit + 1].op = "Constant"
       /\ chunk.constants[chunk.code[m.exit + 1].arg + 1]
            = Function(m.name, Len(m.params), m.start)
       /\ chunk.code[m.exit + 2] = Op("Store", 0, m.name)
  /\ \A nm \in Names :
       chunk.functions[nm].name # "" =>
         \E m \in FnMarks : chunk.functions[nm] = FunctionInfo(nm, Len(m.params), m.start, m.params)
  /\ \A m \in FnMarks : chunk.functions[m.name].name = m.name
  /\ \A m \in FnMarks : (last.op = "Jump" /\ last.at = m.mid) => ip = m.exit
  /\ (FirstRun /\ status = "running" /\ InFunctionBody(ip)) => call_stack # <<>>

C10_Witness ==
  /\ FirstRun /\ status = "running" /\ call_stack = <<>>
  /\ \E m \in FnMarks : last.op = "Jump" /\ last.at = m.mid /\ ip = m.exit /\ m.params # <<>>
  /\ Cardinality(FnMarks) = 2


\* the number of arguments the callee value v expects
CalleeArity(v) == IF v.kind = "BuiltinFunction" THEN builtin_arity(v.name) ELSE v.arity

\* C11: a CALL(n) of a user function or a host function whose arity is not n
\* ends in a runtime error; it pushes no call frame, binds no parameter and
\* does not invoke the host callable.
C11_ArityMismatchFails ==
  [][(/\ Executes /\ instruction.op = "Call" /\ stack # <<>>
      /\ Top(stack).kind \in {"Function", "BuiltinFunction"}
      /\ instruction.arg # CalleeArity(Top(stack)))
       => /\ status' = "error" /\ error'.kind = "RuntimeError"
          /\ call_stack' = call_stack
          /\ globals' = globals
          /\ invoked' = invoked
          /\ stack' = stack
    ]_vars

\* a host function called with more arguments than it takes
C11_Witness ==
  /\ status = "error" /\ last.op = "Call" /\ stack # <<>>
  /\ Top(stack).kind = "BuiltinFunction"
  /\ chunk.code[last.at + 1].arg > builtin_arity(Top(stack).name)
  /\ invoked = <<>>

\* the chunk of the statement `max(2, 1);`
MaxTwoOne == compile(<<ExpressionStmt(CallExpr(Variable("max"), <<Two, One>>))>>).chunk

\* C12: a CALL(n) of a host function of arity n, on a stack that holds the n
\* arguments and the callee, hands the arguments to the callable in source
\* order; when the callable returns a value, that value replaces the n
\* arguments and the callee, and the call-frame stack is unchanged.
C12_HostCallReplacesArguments ==
  [][(/\ Executes /\ instruction.op = "Call" /\ Len(stack) >= instruction.arg + 1
      /\ Top(stack).kind = "BuiltinFunction"
      /\ instruction.arg = builtin_arity(Top(stack).name))
       => LET n == instruction.arg
              below == SubSeq(stack, 1, Len(stack) - n - 1)
              args == [i \in 1..n |-> stack[Len(stack) - n - 1 + i]]
              result == builtin_call(Top(stack).name, args)
          IN  /\ invoked' = Append(invoked, HostCall(Top(stack).name, args))
              /\ chunk = MaxTwoOne => args = <<Number(2), Number(1)>>
              /\ result.ok => /\ status' = "running" /\ ip' = ip + 1
                              /\ stack' = Append(below, result.value)
                              /\ call_stack' = call_stack
              /\ ~result.ok => status' = "error"
    ]_vars

\* `1 == max(2, 1)` after the call
C12_Witness ==
  /\ status = "running" /\ last.op = "Call"
  /\ invoked = <<HostCall("max", <<Number(2), Number(1)>>)>>
  /\ stack = <<Number(1), Number(2)>>
  /\ call_stack = <<>>


\* C13: LOAD pushes the binding of the environment if there is one, else the
\* function of the chunk's function table, else the registered host
\* function; a name found nowhere is a runtime error that pushes nothing.
C13_LoadResolutionOrder ==
  [][(Executes /\ instruction.op = "Load")
       => LET name == instruction.name
              bound == get(globals, name)
              info == chunk.functions[name]
              declared_fn == info.name # ""
          IN  /\ bound.ok => (status' = "running" /\ stack' = Append(stack, bound.value))
              /\ (~bound.ok /\ declared_fn)
                   => /\ status' = "running"
                      /\ stack' = Append(stack, Function(info.name, info.arity,
                                                         info.start_address))
              /\ (~bound.ok /\ ~declared_fn /\ name \in RegisteredBuiltins)
                   => (status' = "running" /\ stack' = Append(stack, BuiltinFunction(name)))
              /\ (~bound.ok /\ ~declared_fn /\ name \notin RegisteredBuiltins)
                   => (status' = "error" /\ error'.kind = "RuntimeError" /\ stack' = stack)
    ]_vars

\* abs is a variable, a declared function and a registered function at once
C13_Witness ==
  /\ status = "running" /\ last.op = "Load" /\ last.name = "abs"
  /\ stack = <<Number(1)>>
  /\ chunk.functions["abs"].name = "abs"
  /\ "abs" \in RegisteredBuiltins


CompiledLoops == [N \in 0..MaxCount |-> compile(CountingLoop(N))]

\* C14: the counting loop `let i = 0; while i < N { print(i); i = i + 1; }`
\* compiles, and its run ends at HALT after printing 0, 1, ..., N-1.
C14_CountingLoopPrints ==
  \A N \in 0..MaxCount :
    /\ CompiledLoops[N].error = ""
    /\ (FirstRun /\ chunk = CompiledLoops[N].chunk /\ status # "running")
         => /\ status = "halted"
            /\ out = [k \in 1..N |-> Number(k - 1)]
            /\ get(globals, "i") = Ok(Number(N))


\* n!
Factorial(n) == IF n <= 1 THEN 1 ELSE n * Factorial(n - 1)

CompiledFactorials == [k \in 1..MaxArg |-> compile(FactorialProgram(k)).chunk]

\* C15: the recursive factorial program prints k! for the argument k; each
\* activation multiplies by the argument it was called with and returns the
\* factorial of that argument, and the run halts with both stacks empty.
C15_FactorialIsComputed ==
  \A k \in 1..MaxArg :
    (FirstRun /\ chunk = CompiledFactorials[k])
      => /\ status \in {"running", "halted"} /\ steps < MaxSteps
         /\ status = "halted"
              => (out = <<Number(Factorial(k))>> /\ call_stack = <<>> /\ stack = <<>>)
         /\ (status = "running" /\ last.op = "Multiply")
              => /\ call_stack # <<>>
                 /\ LET n == Top(shadow).args[1].n
                    IN  Top(stack) = Number(n * Factorial(n - 1))
         /\ (status = "running" /\ last.op = "Return" /\ last.popped)
              => Top(stack) = Number(Factorial(last.caller.args[1].n))

\* f(5) has printed 120
C15_Witness ==
  /\ FirstRun /\ chunk = CompiledFactorials[5]
  /\ status = "halted" /\ out = <<Number(120)>> /\ call_stack = <<>>


\* the operands of the binary instruction about to execute
Left == stack[Len(stack) - 1]
Right == stack[Len(stack)]

DivisionByZero == [kind |-> "RuntimeError", msg |-> "Division by zero", line |-> 0]

\* C16 as stated: DIV and MOD with a numeric divisor equal to zero raise the
\* runtime error "Division by zero" and push no result, and the run is over.
C16_ZeroDivisorRaises ==
  [][/\ (/\ Executes /\ instruction.op \in {"Divide", "Modulo"} /\ Len(stack) >= 2
         /\ Right = Number(0))
          => (status' = "error" /\ error' = DivisionByZero /\ stack' = pop_n(stack, 2))
     /\ status = "error" => steps' # steps + 1
    ]_vars

\* C16, amended: DIV and MOD of a number by the number zero raise the runtime
\* error "Division by zero" and push no result, and the run is over; with a
\* dividend that is not a number the error is a type error instead.
C16_ZeroDivisorOfNumberRaises ==
  [][/\ (/\ Executes /\ instruction.op \in {"Divide", "Modulo"} /\ Len(stack) >= 2
         /\ Right = Number(0))
          => /\ status' = "error" /\ stack' = pop_n(stack, 2)
             /\ Left.kind = "Number" => error' = DivisionByZero
             /\ Left.kind # "Number" => error'.kind = "TypeError"
     /\ status = "error" => steps' # steps + 1
    ]_vars

\* `1 / 0` has just failed
C16_Witness ==
  /\ status = "error" /\ error = DivisionByZero /\ last.op = "Divide"
  /\ chunk.code[last.at - 1].op = "Constant"
  /\ chunk.constants[chunk.code[last.at - 1].arg + 1] = Number(1)
  /\ stack = <<>> /\ out = <<>>

\* C17: LT, LE, GT and GE push a boolean when both operands are numbers or
\* both are strings; for every other pair of kinds, equal values included,
\* they raise an error and push nothing.
C17_ComparisonNeedsSameKind ==
  [][(/\ Executes /\ Len(stack) >= 2
      /\ instruction.op \in {"Less", "LessEqual", "Greater", "GreaterEqual"})
       => LET comparable == \/ Left.kind = "Number" /\ Right.kind = "Number"
                            \/ Left.kind = "String" /\ Right.kind = "String"
              lt == Left.n * Right.d < Right.n * Left.d
              gt == Left.n * Right.d > Right.n * Left.d
              op == instruction.op
          IN  /\ comparable
                   => /\ status' = "running" /\ Len(stack') = Len(stack) - 1
                      /\ Top(stack').kind = "Bool"
                      /\ SubSeq(stack', 1, Len(stack) - 2) = pop_n(stack, 2)
              /\ Left.kind = "Number" /\ Right.kind = "Number"
                   => Top(stack') = Bool(CASE op = "Less" -> lt
                                           [] op = "LessEqual" -> ~gt
                                           [] op = "Greater" -> gt
                                           [] op = "GreaterEqual" -> ~lt)
              /\ ~comparable
                   => (status' = "error" /\ error'.kind = "TypeError"
                       /\ stack' = pop_n(stack, 2))
    ]_vars

\* `nil <= nil` has just failed
C17_Witness ==
  /\ status = "error" /\ error.kind = "TypeError" /\ last.op = "LessEqual"
  /\ chunk.code[last.at].op = "Constant" /\ chunk.code[last.at - 1].op = "Constant"
  /\ chunk.constants[chunk.code[last.at].arg + 1] = Nil
  /\ chunk.constants[chunk.code[last.at - 1].arg + 1] = Nil

\* the string form of a value in a concatenation
StringForm(v) == IF v.kind = "String" THEN v.s ELSE Display(v)

\* C18: ADD of two numbers pushes their sum; ADD with at least one string
\* operand pushes the string form of the left operand followed by the string
\* form of the right one; ADD of any other pair raises a type error.
C18_AddSumsOrConcatenates ==
  [][(Executes /\ instruction.op = "Add" /\ Len(stack) >= 2)
       => LET numbers == Left.kind = "Number" /\ Right.kind = "Number"
              strings == Left.kind = "String" \/ Right.kind = "String"
              result == Append(pop_n(stack, 2),
                               IF numbers
                               THEN Ratio(Left.n * Right.d + Right.n * Left.d,
                                          Left.d * Right.d)
                               ELSE String(StringForm(Left) \o StringForm(Right)))
          IN  /\ (numbers \/ strings) => (status' = "running" /\ stack' = result)
              /\ ~(numbers \/ strings)
                   => (status' = "error" /\ error'.kind = "TypeError"
                       /\ stack' = pop_n(stack, 2))
    ]_vars

\* `1 + "a"` has pushed "1a"
C18_Witness ==
  /\ status = "running" /\ last.op = "Add"
  /\ stack = <<String(<<49, 97>>)>>


\* C19: the eval that follows an eval which ended in a runtime error starts
\* with an empty value stack and an empty call-frame stack.
C19_ErrorDiscardsFailedLine ==
  [][(status = "error" /\ evals' = evals + 1 /\ status' = "running")
       => (stack' = <<>> /\ call_stack' = <<>>)
    ]_vars

\* C20: a parse error carries a line that is at least 1 and is the line of a
\* token of the input.
C20_ParseErrorHasLine ==
  status = "parse_error"
    => /\ error.line >= 1
       /\ \E i \in 1..Len(source) : source[i].line = error.line

(***************************************************************************)
(* The lexer on its own                                                    *)
(***************************************************************************)
\* the line of position at (counted from 0) of input: one more than the
\* newline characters before it
LineOf(input, at) ==
  1 + Cardinality({i \in 1..at : input[i] = Newline})

\* C21: a LexError "Unterminated string" carries the line on which the opening
\* quote of the literal occurred.
C21_UnterminatedStringLine ==
  (~lexed.ok /\ lexed.msg = "Unterminated string")
    => /\ text[lexed.at + 1] = Quote
       /\ lexed.line = LineOf(text, lexed.at)

(***************************************************************************)
(* The Environment on its own                                              *)
(***************************************************************************)
\* the frames below the innermost one
Outer(env) == SubSeq(env, 1, Len(env) - 1)

\* C22: get returns the binding of the innermost frame that binds the name;
\* define in an inner frame shadows an outer binding without changing it; after
\* the pop_scope that removes that frame get returns again what the outer
\* frames bind, and a name bound only in the removed frame is unbound.
C22_ShadowingAndRestore ==
  [][/\ env_call'.op = "get"
          => LET name == env_call'.name
                 binds == {i \in 1..Len(environment) : environment[i][name] # Unbound}
             IN  /\ env_call'.ok = (binds # {})
                 /\ \A i \in binds :
                      (\A j \in binds : j <= i) => env_call'.result = environment[i][name]
     /\ env_call'.op = "define"
          => /\ get(environment', env_call'.name) = Ok(env_call'.value)
             /\ Outer(environment') = Outer(environment)
     /\ (env_call'.op = "pop_scope" /\ Len(environment) > 1)
          => /\ environment' = Outer(environment)
             /\ \A name \in EnvNames : get(environment', name) = get(Outer(environment), name)
    ]_vars

\* x is bound to 1 outside; the frame that bound x to 2 and y to 1 has just
\* been removed: x is 1 again and y is unbound
C22_Witness ==
  /\ env_call.op = "pop_scope"
  /\ env_call.removed # <<>>
  /\ env_call.removed[1]["x"] = Number(2) /\ env_call.removed[1]["y"] = Number(1)
  /\ get(environment, "x") = Ok(Number(1))
  /\ ~get(environment, "y").ok

\* C23: set gives the name its new value in the innermost frame that binds it
\* and changes nothing else; when no frame binds the name it returns an error
\* and creates no binding.
C23_SetUpdatesInnermostBinding ==
  [][env_call'.op = "set"
       => LET name == env_call'.name
              binds == {i \in 1..Len(environment) : environment[i][name] # Unbound}
          IN  IF binds = {}
              THEN ~env_call'.ok /\ environment' = environment
              ELSE /\ env_call'.ok
                   /\ Len(environment') = Len(environment)
                   /\ \A i \in 1..Len(environment), nm \in Names :
                        environment'[i][nm] =
                          IF nm = name /\ i \in binds /\ \A j \in binds : j <= i
                          THEN env_call'.value
                          ELSE environment[i][nm]
    ]_vars

\* x is bound in the global frame and in the innermost of three frames; set
\* has given the inner x the value 2 and left the outer x at 1
C23_Witness ==
  /\ env_call.op = "set" /\ env_call.ok /\ env_call.name = "x"
  /\ Len(environment) = 3
  /\ environment[1]["x"] = Number(1)
  /\ environment[3]["x"] = Number(2)

\* set on a name that no frame binds has returned the error
C23_WitnessUnbound ==
  /\ env_call.op = "set" /\ ~env_call.ok
  /\ Len(environment) > 1

\* C24: the global frame is never removed: pop_scope on an environment that
\* holds only the global frame leaves it as it is, and a define that follows
\* binds the name.
C24_GlobalFrameStays ==
  [][/\ Len(environment') >= 1
     /\ (env_call'.op = "pop_scope" /\ Len(environment) = 1)
          => environment' = environment
     /\ (env_call'.op = "define" /\ env_call.op = "pop_scope" /\ env_call.removed = <<>>)
          => get(environment', env_call'.name) = Ok(env_call'.value)
    ]_vars

\* pop_scope was called on the global frame alone, and the define after it
\* bound y there
C24_Witness ==
  /\ env_call.op = "define" /\ env_call.name = "y" /\ env_call.after = "pop_scope"
  /\ Len(environment) = 1
  /\ environment[1]["y"] = Number(2)
  /\ environment[1]["x"] = Unbound

(***************************************************************************)
(* Functions and the REPL session, continued                               *)
(***************************************************************************)
\* C25: a call of a user function whose body runs to its end without a return
\* statement comes back through the RETURN that closes the body with nil as
\* its result, and so does a call that executes `return;`.
C25_MissingReturnYieldsNil ==
  [][\A m \in chunk.marks :
       /\ (/\ m.kind = "fn" /\ Executes /\ call_stack # <<>>
           /\ m.start <= ip /\ ip < m.exit /\ status' = "running")
            => /\ instruction.op \notin {"Return", "Call"} => (m.start <= ip' /\ ip' < m.exit)
               /\ ip = m.exit - 1
                    => /\ instruction.op = "Return"
                       /\ Len(call_stack') = Len(call_stack) - 1
                       /\ stack' # <<>> /\ Top(stack') = Nil
       /\ (/\ m.kind = "return" /\ ~m.flag /\ Executes /\ call_stack # <<>>
           /\ ip = m.exit - 1 /\ status' = "running")
            => /\ Len(call_stack') = Len(call_stack) - 1
               /\ stack' # <<>> /\ Top(stack') = Nil
    ]_vars

\* a call has run a body that holds a statement to its end and come back with nil
C25_Witness ==
  /\ FirstRun /\ status = "running" /\ last.op = "Return" /\ last.popped
  /\ \E m \in FnMarks : last.at = m.exit - 1 /\ m.exit - m.start > 2
  /\ stack # <<>> /\ Top(stack) = Nil
  /\ ip = last.caller.call_addr + 1

\* a call has executed `return;` and come back with nil
C25_WitnessReturnNil ==
  /\ FirstRun /\ status = "running" /\ last.op = "Return" /\ last.popped
  /\ \E m \in chunk.marks : m.kind = "return" /\ ~m.flag /\ last.at = m.exit - 1
  /\ stack # <<>> /\ Top(stack) = Nil

\* C27: interpret leaves the globals, the value stack and the call-frame
\* stack of the VM as the chunk before left them and starts the new chunk at
\* address 0; a LOAD in a later chunk of a name that the globals bind pushes
\* the value the name last had.
C27_GlobalsPersistAcrossInterpret ==
  [][/\ (evals' = evals + 1 /\ status' = "running")
          => /\ globals' = globals /\ stack' = stack /\ call_stack' = call_stack
             /\ ip' = 0
     /\ (/\ Executes /\ evals > 1 /\ ip < Len(chunk.code) /\ instruction.op = "Load"
         /\ \E i \in 1..Len(globals) : globals[i][instruction.name] # Unbound)
          => /\ status' = "running"
             /\ \E i \in 1..Len(globals) :
                  /\ stack' = Append(stack, globals[i][instruction.name])
                  /\ \A j \in (i + 1)..Len(globals) : globals[j][instruction.name] = Unbound
    ]_vars

\* the first instruction of the second chunk has loaded x, which the first
\* chunk bound to 1
C27_Witness ==
  /\ evals = 2 /\ status = "running" /\ steps = 1
  /\ last.op = "Load" /\ last.name = "x"
  /\ stack # <<>> /\ Top(stack) = Number(1)
  /\ get(globals, "x") = Ok(Number(1))

\* C28: the code of an expression leaves exactly one value more on the value
\* stack than it found when it runs without error, so the instruction that
\* consumes the value finds it.  Stated for the expression that opens a
\* program, which finds the stack empty: `let y = print(1);`, `print(1) + 2;`.
C28_ExpressionPushesOneValue ==
  \A m \in chunk.marks :
    (/\ m.kind = "expr" /\ m.start = 0
     /\ FirstRun /\ status = "running" /\ call_stack = <<>> /\ ip = m.exit)
      => Len(stack) = 1

(***************************************************************************)
(* The parser on its own                                                   *)
(***************************************************************************)
\* the level of the grammar that builds the node, the loosest first
Level(node) ==
  CASE node.type = "Logical" /\ node.op = "Or" -> 1
    [] node.type = "Logical" /\ node.op = "And" -> 2
    [] node.type = "Binary" /\ node.op \in {"Equal", "NotEqual"} -> 3
    [] node.type = "Binary" /\ node.op \in {"Less", "LessEqual", "Greater", "GreaterEqual"} -> 4
    [] node.type = "Binary" /\ node.op \in {"Add", "Subtract"} -> 5
    [] node.type = "Binary" /\ node.op \in {"Multiply", "Divide", "Modulo"} -> 6
    [] node.type = "Unary" -> 7
    [] OTHER -> 8

\* the left operand of a binary node binds at least as tightly as the node,
\* the right operand binds more tightly, and the operand of a unary node is a
\* unary node or a primary
Precedes(node) ==
  CASE node.type \in {"Binary", "Logical"} ->
         /\ Level(node.kids[1]) >= Level(node) /\ Precedes(node.kids[1])
         /\ Level(node.kids[2]) > Level(node) /\ Precedes(node.kids[2])
    [] node.type = "Unary" -> Level(node.kids[1]) >= 7 /\ Precedes(node.kids[1])
    [] OTHER -> TRUE

\* the token type of an operator of the tree
OperatorToken(node) ==
  CASE node.op = "Or" -> "Or" [] node.op = "And" -> "And"
    [] node.op = "Equal" -> "EqualEqual" [] node.op = "Less" -> "Less"
    [] node.op = "Add" -> "Plus" [] node.op = "Subtract" -> "Minus"
    [] node.op = "Multiply" -> "Star" [] node.op = "Divide" -> "Slash"
    [] node.op = "Minus" -> "Minus" [] node.op = "Not" -> "Bang"
    [] OTHER -> ""

\* the lexemes of the tree from left to right
Flatten(node) ==
  CASE node.type \in {"Binary", "Logical"} ->
         Flatten(node.kids[1]) \o <<Punct(OperatorToken(node))>> \o Flatten(node.kids[2])
    [] node.type = "Unary" -> <<Punct(OperatorToken(node))>> \o Flatten(node.kids[1])
    [] node.type = "Variable" -> <<Ident(node.name)>>
    [] node.type = "Literal" -> <<Num(node.val.n)>>
    [] OTHER -> <<>>

\* the lexemes that the tokens before `;` were made of
Lexemes(tokens) ==
  [i \in 1..(Len(tokens) - 2) |-> Lexeme(tokens[i].type, tokens[i].name, tokens[i].value)]

\* C26: the tree of an expression without parentheses holds the tokens in
\* their order, every left operand binds at least as tightly as its operator,
\* every right operand binds more tightly, and a unary operator has the unary
\* expression or primary after it as its operand.
C26_PrecedenceAndAssociativity ==
  parsed.tokens # <<>>
    => /\ parsed.ok /\ Len(parsed.statements) = 1
       /\ parsed.statements[1].type = "Expression"
       /\ Flatten(parsed.statements[1].kids[1]) = Lexemes(parsed.tokens)
       /\ Precedes(parsed.statements[1].kids[1])

\* `1 - a * 1;` is Subtract(1, Multiply(a, 1))
C26_Witness ==
  /\ parsed.ok /\ Len(parsed.statements) = 1
  /\ parsed.statements[1] =
       ExpressionStmt(Binary("Subtract", Literal(Number(1)),
                             Binary("Multiply", Variable("a"), Literal(Number(1)))))

\* `1 - a - 1;` is Subtract(Subtract(1, a), 1)
C26_WitnessLeft ==
  /\ parsed.ok /\ Len(parsed.statements) = 1
  /\ parsed.statements[1] =
       ExpressionStmt(Binary("Subtract",
                             Binary("Subtract", Literal(Number(1)), Variable("a")),
                             Literal(Number(1))))

\* `1 - ! - a;` is Subtract(1, Not(Minus(a)))
C26_WitnessUnary ==
  /\ parsed.ok /\ Len(parsed.statements) = 1
  /\ parsed.statements[1] =
       ExpressionStmt(Binary("Subtract", Literal(Number(1)),
                                  Unary("Not", Unary("Minus", Variable("a")))))

(***************************************************************************)
(* The HTTP builtins                                                       *)
(***************************************************************************)
\* C29: when the registry holds for a port a handle whose flag is set and
\* whose start_http_server has returned "HTTP server started", a thread is in
\* the accept loop on the socket of that port.
C29_RegisteredServerListens ==
  \A port \in Ports :
    (/\ servers[port] # 0
     /\ handles[servers[port]].running
     /\ servers[port] \in started)
      => \E h \in 1..Len(handles) : handles[h].port = port /\ Listening(h)

\* C30: the thread of a handle whose flag stop_http_server has cleared
\* leaves its accept loop.
C30_StoppedLoopExits ==
  \A h \in 1..MaxStarts :
    (h <= Len(handles) /\ ~handles[h].running)
      ~> (h <= Len(handles) /\ handles[h].pc \in {"exited", "failed"})

\* the handle was stopped while its thread was in the accept loop, and the
\* thread has left the loop through the test of the flag
C30_Witness ==
  /\ handles # <<>>
  /\ ~handles[1].running /\ handles[1].pc = "exited"
  /\ 1 \in started
  /\ http_reply = Reply("HTTP server on port stopped", handles[1].port)

====
